---------------------------- MODULE Spec2Model ----------------------------
(***************************************************************************)
(* A model of timezone-translate: the timezone identifier                  *)
(* (detectTimezone over TIMEZONE_MAP / TIMEZONE_REGEX), the wall-clock     *)
(* resolver (componentsToWallClock, wallClockToUTC, getUtcOffset,          *)
(* convertParsed) and the dialog (showDialog, updateResult, the copy       *)
(* button, removeDialog and the key handler).                              *)
(*                                                                         *)
(* Conventions.                                                            *)
(*  - A JavaScript string is a sequence of one-character strings.          *)
(*  - A Date is its time value in SECONDS since 1970-01-01T00:00:00Z       *)
(*    (every Date the code builds has a zero millisecond part, so          *)
(*    getTime() = 1000 * the model's value).  All values stay below 2^31.  *)
(*  - A value that may be null/undefined is None (<<>>) or Some(v).        *)
(*  - The host environment (local time zone, Intl's zone database and its  *)
(*    rendering of midnight) is part of the state, fixed at start-up.      *)
(*  - A function's local constants are the parameters of a helper          *)
(*    operator named after what they hold, so that each is computed once.  *)
(***************************************************************************)
EXTENDS Integers, Sequences, FiniteSets, TLC

VARIABLES
  pc,          \* "ready": the call in `call` is about to run; "done": it returned
  call,        \* the operation under way and its arguments
  ret,         \* what the call returned (Pending before it ran)
  lastIndex,   \* TIMEZONE_REGEX.lastIndex, the only mutable global of the code
  hostTZ,      \* the host's local time zone (Date's local-time getters/constructor)
  midnight24,  \* whether the host's Intl renders hour 0 as "24" under hour12:false
  dialogs,     \* the elements with id __tz-translator-host__ in the document, in order
  keydown,     \* how many times onKeyDown is registered on the document
  clipboard    \* what was last written to the clipboard (None: nothing yet)

\* The page: what the dialog code keeps in the document and on the clipboard.
page == <<dialogs, keydown, clipboard>>
vars == <<pc, call, ret, lastIndex, hostTZ, midnight24, page>>

None == <<>>
Some(v) == <<v>>
Pending == "pending"
NULL == "null"
RangeError == "RangeError"

\* The page as loaded: no dialog, no key handler, nothing copied.
PageLoaded == dialogs = <<>> /\ keydown = 0 /\ clipboard = None

---------------------------------------------------------------------------
(* Calendar arithmetic: ECMAScript's MakeDay/MakeTime/MakeDate and the     *)
(* inverse field extraction, on the proleptic Gregorian calendar.          *)

\* Day-of-era of the civil date with March-based year yoe (0..399),
\* March-based month mp (0..11) and day d.
DayOfEra(yoe, mp, d) ==
  yoe * 365 + yoe \div 4 - yoe \div 100 + (153 * mp + 2) \div 5 + d - 1

\* Days from 1970-01-01 to the date d of month mp (March-based) in the
\* March-based year yy.
DaysFromMarchYear(yy, mp, d) ==
  (yy \div 400) * 146097 + DayOfEra(yy % 400, mp, d) - 719468

\* Days from 1970-01-01 to the civil date y-m-d (m in 1..12).
DaysFromCivil(y, m, d) ==
  DaysFromMarchYear(IF m <= 2 THEN y - 1 ELSE y, IF m > 2 THEN m - 3 ELSE m + 9, d)

\* The civil date with era, year-of-era yoe, March-based day-of-year doy
\* and March-based month mp.
CivilOfMonth(era, yoe, doy, mp) ==
  [year  |-> yoe + era * 400 + (IF mp < 10 THEN 0 ELSE 1),
   month |-> IF mp < 10 THEN mp + 3 ELSE mp - 9,
   day   |-> doy - (153 * mp + 2) \div 5 + 1]

CivilOfDayOfYear(era, yoe, doy) == CivilOfMonth(era, yoe, doy, (5 * doy + 2) \div 153)

CivilOfYearOfEra(era, doe, yoe) ==
  CivilOfDayOfYear(era, yoe, doe - (365 * yoe + yoe \div 4 - yoe \div 100))

CivilOfDayOfEra(era, doe) ==
  CivilOfYearOfEra(era, doe,
    (doe - doe \div 1460 + doe \div 36524 - doe \div 146096) \div 365)

\* The civil date of day number z (days since 1970-01-01).
CivilFromDays(z) ==
  CivilOfDayOfEra((z + 719468) \div 146097, (z + 719468) % 146097)

\* Date.UTC(year, monthIndex, day, hour, minute, second): monthIndex is
\* 0-based; out-of-range month, day, hour, minute or second carry over.
DateUTC(y, m0, d, h, mi, s) ==
  (DaysFromCivil(y + m0 \div 12, (m0 % 12) + 1, 1) + d - 1) * 86400
    + h * 3600 + mi * 60 + s

\* The field record of civil date c at sod seconds into the day.
FieldsAt(c, sod) ==
  [year |-> c.year, month |-> c.month, day |-> c.day,
   hour |-> sod \div 3600, minute |-> (sod % 3600) \div 60, second |-> sod % 60]

\* The calendar fields of the time value t read on the UTC scale
\* (month is 1-based, as Intl prints it).
FieldsOf(t) == FieldsAt(CivilFromDays(t \div 86400), t % 86400)

\* The time value whose UTC reading is the field record f: what parsing
\* the ISO string "yyyy-mm-ddThh:mm:ssZ" built from f yields.
UTCOfFields(f) == DateUTC(f.year, f.month - 1, f.day, f.hour, f.minute, f.second)

---------------------------------------------------------------------------
(* The host's zone database, as Intl.DateTimeFormat and Date consult it.   *)
(* Offsets are minutes east of UTC; each rule covers 2025: the offset in   *)
(* force on 2025-01-01 and the year's transitions in time order.  Any      *)
(* identifier outside the table is unknown to Intl.                        *)

ZoneRules ==
  [z \in {"UTC", "GMT", "America/New_York", "America/Los_Angeles",
          "Europe/Paris", "Asia/Kolkata", "Asia/Calcutta", "Australia/Sydney"} |->
     CASE z = "UTC" ->
            [base |-> 0, baseName |-> "Coordinated Universal Time", trans |-> <<>>]
       [] z = "GMT" ->
            [base |-> 0, baseName |-> "Greenwich Mean Time", trans |-> <<>>]
       [] z = "America/New_York" ->
            [base |-> -300, baseName |-> "Eastern Standard Time",
             trans |-> << [at |-> DateUTC(2025, 2, 9, 7, 0, 0), offset |-> -240,
                           name |-> "Eastern Daylight Time"],
                          [at |-> DateUTC(2025, 10, 2, 6, 0, 0), offset |-> -300,
                           name |-> "Eastern Standard Time"] >>]
       [] z = "America/Los_Angeles" ->
            [base |-> -480, baseName |-> "Pacific Standard Time",
             trans |-> << [at |-> DateUTC(2025, 2, 9, 10, 0, 0), offset |-> -420,
                           name |-> "Pacific Daylight Time"],
                          [at |-> DateUTC(2025, 10, 2, 9, 0, 0), offset |-> -480,
                           name |-> "Pacific Standard Time"] >>]
       [] z = "Europe/Paris" ->
            [base |-> 60, baseName |-> "Central European Standard Time",
             trans |-> << [at |-> DateUTC(2025, 2, 30, 1, 0, 0), offset |-> 120,
                           name |-> "Central European Summer Time"],
                          [at |-> DateUTC(2025, 9, 26, 1, 0, 0), offset |-> 60,
                           name |-> "Central European Standard Time"] >>]
       [] z = "Asia/Kolkata" ->
            [base |-> 330, baseName |-> "India Standard Time", trans |-> <<>>]
       [] z = "Asia/Calcutta" ->
            [base |-> 330, baseName |-> "India Standard Time", trans |-> <<>>]
       [] z = "Australia/Sydney" ->
            [base |-> 660, baseName |-> "Australian Eastern Daylight Time",
             trans |-> << [at |-> DateUTC(2025, 3, 5, 16, 0, 0), offset |-> 600,
                           name |-> "Australian Eastern Standard Time"],
                          [at |-> DateUTC(2025, 9, 4, 16, 0, 0), offset |-> 660,
                           name |-> "Australian Eastern Daylight Time"] >>] ]

KnownZone(tz) == tz \in DOMAIN ZoneRules

\* The n-th rule of zone record r: its base rule for n = 0.
RuleOf(r, n) ==
  IF n = 0 THEN [offset |-> r.base, name |-> r.baseName]
  ELSE [offset |-> r.trans[n].offset, name |-> r.trans[n].name]

\* The rule of zone record r in force at t: that of the last transition at
\* or before t (the transitions are in time order).
RuleIn(r, t) == RuleOf(r, Cardinality({i \in 1..Len(r.trans) : r.trans[i].at <= t}))

\* The rule of tz in force at time value t.
RuleAt(t, tz) == RuleIn(ZoneRules[tz], t)

OffsetAt(t, tz) == RuleAt(t, tz).offset

\* The calendar fields a clock in tz shows at time value t.
ZoneFields(t, tz) == FieldsOf(t + OffsetAt(t, tz) * 60)

\* Every offset of zone record r, and of tz, during the modelled year.
OffsetsOf(r) == {r.base} \cup {r.trans[i].offset : i \in 1..Len(r.trans)}
ZoneOffsets(tz) == OffsetsOf(ZoneRules[tz])

Least(S) == CHOOSE u \in S : \A v \in S : u <= v
Greatest(S) == CHOOSE u \in S : \A v \in S : v <= u

\* The instant chosen among the instants that show a local reading (cands)
\* and all the instants one of the zone's offsets would give (all).
PickInstant(cands, all) == IF cands # {} THEN Least(cands) ELSE Greatest(all)

\* ECMAScript's UTC(t) for a local time value: the instants whose local
\* reading is tl; the earliest when the reading repeats, and for a skipped
\* reading the instant obtained with the offset before the transition.
UTCOfLocal(tl, tz) ==
  PickInstant({tl - o * 60 : o \in {p \in ZoneOffsets(tz) : OffsetAt(tl - p * 60, tz) = p}},
              {tl - o * 60 : o \in ZoneOffsets(tz)})

\* new Date(year, monthIndex, day, hour, minute, second) on the host.
NewDateLocal(y, m0, d, h, mi, s) == UTCOfLocal(DateUTC(y, m0, d, h, mi, s), hostTZ)

\* getFullYear(), getMonth()+1, getDate(), getHours(), getMinutes(),
\* getSeconds() of a Date on the host.
LocalFields(t) == ZoneFields(t, hostTZ)

---------------------------------------------------------------------------
(* src/shared/parser.js: the wall-clock resolver.                          *)

\* a ?? b for a value that may be missing.
Coalesce(x, d) == IF x = None THEN d ELSE x[1]

\* The separators normalizeForChrono rewrites (pipe, em-dash U+2014, bullet
\* U+2022; a character outside Latin-1 is written by its Unicode name, as
\* is the en-dash U+2013), and the characters \s and trim() count as white
\* space.
Separators == {"|", "EM DASH", "BULLET"}
WhiteSpace == {" ", "\t", "\n"}

\* Mutant of ReplaceSeparators: the en-dash is rewritten as well.
RECURSIVE ReplaceSeparators_EnDash(_)
ReplaceSeparators_EnDash(text) ==
  IF text = <<>> THEN <<>>
  ELSE (IF Head(text) \in Separators \cup {"EN DASH"} THEN <<",", " ">> ELSE <<Head(text)>>)
         \o ReplaceSeparators_EnDash(Tail(text))

\* .replace(/[|<em-dash><bullet>]/g, ", ")
RECURSIVE ReplaceSeparators(_)
ReplaceSeparators(text) ==
  IF text = <<>> THEN <<>>
  ELSE (IF Head(text) \in Separators THEN <<",", " ">> ELSE <<Head(text)>>)
         \o ReplaceSeparators(Tail(text))

\* The end of the white-space run that starts at position i (1-based):
\* the first position at or after i that holds no white space.
RECURSIVE SkipSpace(_, _)
SkipSpace(text, i) ==
  IF i <= Len(text) /\ text[i] \in WhiteSpace THEN SkipSpace(text, i + 1) ELSE i

\* .replace(/,\s*,/g, ","): scanning from position i, a comma followed by
\* white space and a comma (j being the end of that white space) becomes one
\* comma and the scan goes on after the match; any other character is kept.
RECURSIVE CollapseCommas(_, _)
CommaRunAt(text, i, j) ==
  IF text[i] = "," /\ j <= Len(text) /\ text[j] = ","
  THEN <<",">> \o CollapseCommas(text, j + 1)
  ELSE <<text[i]>> \o CollapseCommas(text, i + 1)
CollapseCommas(text, i) ==
  IF i > Len(text) THEN <<>> ELSE CommaRunAt(text, i, SkipSpace(text, i + 1))

\* .replace(/\s{2,}/g, " "): a run of two or more white-space characters
\* from position i (j being its end) becomes one space.
RECURSIVE CollapseSpaces(_, _)
SpaceRunAt(text, i, j) ==
  IF j - i >= 2
  THEN <<" ">> \o CollapseSpaces(text, j)
  ELSE <<text[i]>> \o CollapseSpaces(text, i + 1)
CollapseSpaces(text, i) ==
  IF i > Len(text) THEN <<>> ELSE SpaceRunAt(text, i, SkipSpace(text, i))

\* .trim()
RECURSIVE TrimStart(_)
TrimStart(text) ==
  IF text # <<>> /\ Head(text) \in WhiteSpace THEN TrimStart(Tail(text)) ELSE text
RECURSIVE TrimEnd(_)
TrimEnd(text) ==
  IF text # <<>> /\ text[Len(text)] \in WhiteSpace
  THEN TrimEnd(SubSeq(text, 1, Len(text) - 1)) ELSE text
trim(text) == TrimEnd(TrimStart(text))

\* normalizeForChrono(text), lines 8-14.
normalizeForChrono(text) ==
  trim(CollapseSpaces(CollapseCommas(ReplaceSeparators(text), 1), 1))

\* Some hosts print the hour of midnight as 24 under hour12: false.
HourCycle(f) == [f EXCEPT !.hour = IF f.hour = 0 /\ midnight24 THEN 24 ELSE f.hour]

\* Intl.DateTimeFormat("en-US", {timeZone: tz, ..., hour12: false})
\*   .formatToParts(utcDate), read through get(type): the numeric parts.
IntlParts(t, tz) == HourCycle(ZoneFields(t, tz))

\* Mutant of OffsetOfParts: the "24 means midnight" correction is missing.
OffsetOfParts_KeepHour24(parts, utcDate) ==
  (DateUTC(parts.year, parts.month - 1, parts.day, parts.hour,
           parts.minute, parts.second) - utcDate) \div 60

\* getUtcOffset, lines 98-111: the offset in minutes that the parts of
\* utcDate in the zone stand for (h is 0 when Intl printed 24).
OffsetOfParts(parts, utcDate) ==
  (DateUTC(parts.year, parts.month - 1, parts.day,
           IF parts.hour = 24 THEN 0 ELSE parts.hour,
           parts.minute, parts.second) - utcDate) \div 60

\* getUtcOffset(utcDate, tz) for a zone Intl knows: minutes east of UTC.
getUtcOffset(utcDate, tz) == OffsetOfParts(IntlParts(utcDate, tz), utcDate)

\* Mutant of ShiftByOffset: the offset is added instead of subtracted.
ShiftByOffset_Add(utcEstimate, fromTZ) ==
  utcEstimate + getUtcOffset(utcEstimate, fromTZ) * 60

\* wallClockToUTC, lines 67-71: true UTC = wall clock - offset, the offset
\* being the one in force at the estimate.
ShiftByOffset(utcEstimate, fromTZ) ==
  utcEstimate - getUtcOffset(utcEstimate, fromTZ) * 60

\* wallClockToUTC(parsedDate, fromTZ).  The ISO string built from the
\* host-local fields (a four-digit year in the model's range) is parsed as
\* UTC; an unknown zone makes Intl.DateTimeFormat throw a RangeError.
wallClockToUTC(parsedDate, fromTZ) ==
  IF ~KnownZone(fromTZ) THEN RangeError
  ELSE ShiftByOffset(UTCOfFields(LocalFields(parsedDate)), fromTZ)

MonthNames ==
  << "January", "February", "March", "April", "May", "June", "July",
     "August", "September", "October", "November", "December" >>

\* en-US "February 18, 2025" and "6:00 AM" (12-hour clock; midnight and
\* noon print as 12) for a field record.
DateText(f) == [month |-> MonthNames[f.month], day |-> f.day, year |-> f.year]
TimeText(f) ==
  [hour |-> IF f.hour % 12 = 0 THEN 12 ELSE f.hour % 12,
   minute |-> f.minute,
   dayPeriod |-> IF f.hour < 12 THEN "AM" ELSE "PM"]

\* {month: "long", day: "numeric", year: "numeric"} in zone tz.
FormatDate(t, tz) == DateText(ZoneFields(t, tz))

\* {hour: "numeric", minute: "2-digit"} in zone tz.
FormatTime(t, tz) == TimeText(ZoneFields(t, tz))

\* {timeZoneName: "long"}: the zone's name in force at t.
FormatZoneName(t, tz) == RuleAt(t, tz).name

\* Mutant of Display: the formatters lack the timeZone option, so the
\* labels are rendered in the host's zone.
Display_HostZone(startUTC, endUTC, toTZ) ==
  [startUTC    |-> startUTC,
   endUTC      |-> endUTC,
   displayDate |-> FormatDate(startUTC, hostTZ),
   displayTime |-> IF endUTC # None
                   THEN <<FormatTime(startUTC, hostTZ), FormatTime(endUTC[1], hostTZ)>>
                   ELSE <<FormatTime(startUTC, hostTZ)>>,
   displayTZ   |-> FormatZoneName(startUTC, hostTZ)]

\* Mutant of Display: the time label is the start time alone.
Display_StartOnly(startUTC, endUTC, toTZ) ==
  [startUTC    |-> startUTC,
   endUTC      |-> endUTC,
   displayDate |-> FormatDate(startUTC, toTZ),
   displayTime |-> <<FormatTime(startUTC, toTZ)>>,
   displayTZ   |-> FormatZoneName(startUTC, toTZ)]

\* Mutant of Display: the zone's name is the one in force on the day the
\* conversion is made (2025-07-01 here), not at the start instant.
Display_ZoneNameNow(startUTC, endUTC, toTZ) ==
  [startUTC    |-> startUTC,
   endUTC      |-> endUTC,
   displayDate |-> FormatDate(startUTC, toTZ),
   displayTime |-> IF endUTC # None
                   THEN <<FormatTime(startUTC, toTZ), FormatTime(endUTC[1], toTZ)>>
                   ELSE <<FormatTime(startUTC, toTZ)>>,
   displayTZ   |-> FormatZoneName(DateUTC(2025, 6, 1, 12, 0, 0), toTZ)]

\* convertParsed, lines 215-247: the result assembled from the resolved
\* instants.  displayTime is the sequence of the time labels that the code
\* joins with an en-dash.
Display(startUTC, endUTC, toTZ) ==
  [startUTC    |-> startUTC,
   endUTC      |-> endUTC,
   displayDate |-> FormatDate(startUTC, toTZ),
   displayTime |-> IF endUTC # None
                   THEN <<FormatTime(startUTC, toTZ), FormatTime(endUTC[1], toTZ)>>
                   ELSE <<FormatTime(startUTC, toTZ)>>,
   displayTZ   |-> FormatZoneName(startUTC, toTZ)]

\* The zone a lenient formatter would fall back to.
ZoneOrUTC(tz) == IF KnownZone(tz) THEN tz ELSE "UTC"

\* Mutant of convertCompletion: an unknown zone is silently read as UTC.
convertCompletion_DefaultZone(parsed, fromTZ, toTZ) ==
  [kind  |-> "return",
   value |-> Display(wallClockToUTC(parsed.start, ZoneOrUTC(fromTZ)),
                     IF parsed.end # None
                     THEN Some(wallClockToUTC(parsed.end[1], ZoneOrUTC(fromTZ))) ELSE None,
                     ZoneOrUTC(toTZ))]

\* How a call of convertParsed(parsed, fromTZ, toTZ) completes: it returns
\* the display record, or the Intl.DateTimeFormat constructor throws a
\* RangeError for an unknown fromTZ (line 84, reached from line 212) or
\* toTZ (line 216); nothing in the module catches it.
convertCompletion(parsed, fromTZ, toTZ) ==
  IF ~KnownZone(fromTZ) \/ ~KnownZone(toTZ)
  THEN [kind |-> "throw", value |-> RangeError]
  ELSE [kind  |-> "return",
        value |-> Display(wallClockToUTC(parsed.start, fromTZ),
                          IF parsed.end # None
                          THEN Some(wallClockToUTC(parsed.end[1], fromTZ)) ELSE None,
                          toTZ)]

\* convertParsed(parsed, fromTZ, toTZ): the value returned or thrown.
convertParsed(parsed, fromTZ, toTZ) == convertCompletion(parsed, fromTZ, toTZ).value

\* Mutant of ParsedAfterConvert: resolving an endpoint moves the caller's
\* Date to the resolved instant (setTime on the argument).
ParsedAfterConvert_Moved(parsed, fromTZ, toTZ) ==
  IF ~KnownZone(fromTZ) THEN parsed
  ELSE [parsed EXCEPT !.start = wallClockToUTC(parsed.start, fromTZ)]

\* What convertParsed leaves of the object it was given: lines 211-248 and
\* wallClockToUTC only read parsed.start and parsed.end through getters and
\* build new Dates, so the object is as before.
ParsedAfterConvert(parsed, fromTZ, toTZ) == parsed

\* componentsToWallClock, line 35: 6 PM -> 18.
MeridiemPM(hour, meridiem) == IF meridiem = Some(1) /\ hour < 12 THEN hour + 12 ELSE hour

\* Mutant of MeridiemAM: the 12 AM -> 0 correction is missing.
MeridiemAM_Missing(hour, meridiem) == hour

\* componentsToWallClock, line 36: 12 AM (midnight) -> 0.
MeridiemAM(hour, meridiem) == IF meridiem = Some(0) /\ hour = 12 THEN 0 ELSE hour

\* componentsToWallClock, lines 26-36, with now the host-local fields of
\* the reference Date: the six arguments of the Date constructor (month
\* 0-based).  components maps each chrono field to None or Some(value).
ArgsWithDefaults(components, now) ==
  [year   |-> Coalesce(components.year, now.year),
   month  |-> Coalesce(components.month, now.month) - 1,
   day    |-> Coalesce(components.day, now.day),
   hour   |-> MeridiemAM(MeridiemPM(Coalesce(components.hour, 12), components.meridiem),
                         components.meridiem),
   minute |-> Coalesce(components.minute, 0),
   second |-> Coalesce(components.second, 0)]

\* Mutant of WallClockArgs: the defaults are the reference's UTC fields.
WallClockArgs_UTC(components, ref) == ArgsWithDefaults(components, FieldsOf(ref))

WallClockArgs(components, ref) == ArgsWithDefaults(components, LocalFields(ref))

\* new Date(year, month, day, hour, minute, second), line 38.
DateOfArgs(a) == NewDateLocal(a.year, a.month, a.day, a.hour, a.minute, a.second)

\* componentsToWallClock(components, ref): the host-local Date.
componentsToWallClock(components, ref) == DateOfArgs(WallClockArgs(components, ref))

\* Lines 196-200: the object returned for start and end (None: null).
MomentOf(start, end) == [start |-> start, end |-> end, hasRange |-> end # None]

\* Mutant of ParsedMomentOf: a match without an end gets its start as end.
ParsedMomentOf_EndFromStart(result, ref) ==
  MomentOf(componentsToWallClock(result.start, ref),
           Some(componentsToWallClock(Coalesce(result.end, result.start), ref)))

\* parseSelectedText, lines 191-194: the ParsedMoment built from the first
\* match (result.start, and result.end when the match has one).
ParsedMomentOf(result, ref) ==
  MomentOf(componentsToWallClock(result.start, ref),
           IF result.end # None
           THEN Some(componentsToWallClock(result.end[1], ref)) ELSE None)

\* Line 189: !results || results.length === 0.  results is None (null) or
\* Some(the array of matches).
NoResults(results) == results = None \/ Len(results[1]) = 0

\* Mutant of parseCompletion: the guard of line 189 is missing, so
\* results[0].start is read off nothing and a TypeError is thrown.
parseCompletion_NoGuard(results, ref) ==
  IF NoResults(results) THEN [kind |-> "throw", value |-> "TypeError"]
  ELSE [kind |-> "return", value |-> Some(ParsedMomentOf(results[1][1], ref))]

\* How parseSelectedText completes once the extractor has answered results
\* for the normalized text with reference ref: it returns None (null) or
\* Some(ParsedMoment).
parseCompletion(results, ref) ==
  IF NoResults(results) THEN [kind |-> "return", value |-> None]
  ELSE [kind |-> "return", value |-> Some(ParsedMomentOf(results[1][1], ref))]

---------------------------------------------------------------------------
(* src/content/timezone-data.js: the timezone identifier.                  *)

\* String.prototype.toUpperCase / toLowerCase on one character.  The
\* model's characters are ASCII plus the letter pair e-acute.
UpperMap ==
  [c \in {"a", "b", "c", "d", "e", "f", "g", "h", "i", "j", "k", "l", "m", "n", "o", "p", "q", "r", "s", "t", "u", "v", "w", "x", "y", "z", "é"} |->
     CASE c = "a" -> "A" [] c = "b" -> "B" [] c = "c" -> "C" [] c = "d" -> "D"
       [] c = "e" -> "E" [] c = "f" -> "F" [] c = "g" -> "G" [] c = "h" -> "H"
       [] c = "i" -> "I" [] c = "j" -> "J" [] c = "k" -> "K" [] c = "l" -> "L"
       [] c = "m" -> "M" [] c = "n" -> "N" [] c = "o" -> "O" [] c = "p" -> "P"
       [] c = "q" -> "Q" [] c = "r" -> "R" [] c = "s" -> "S" [] c = "t" -> "T"
       [] c = "u" -> "U" [] c = "v" -> "V" [] c = "w" -> "W" [] c = "x" -> "X"
       [] c = "y" -> "Y" [] c = "z" -> "Z"
       [] c = "é" -> "É"]
LowerMap ==
  [c \in {"A", "B", "C", "D", "E", "F", "G", "H", "I", "J", "K", "L", "M", "N", "O", "P", "Q", "R", "S", "T", "U", "V", "W", "X", "Y", "Z", "É"} |->
     CASE c = "A" -> "a" [] c = "B" -> "b" [] c = "C" -> "c" [] c = "D" -> "d"
       [] c = "E" -> "e" [] c = "F" -> "f" [] c = "G" -> "g" [] c = "H" -> "h"
       [] c = "I" -> "i" [] c = "J" -> "j" [] c = "K" -> "k" [] c = "L" -> "l"
       [] c = "M" -> "m" [] c = "N" -> "n" [] c = "O" -> "o" [] c = "P" -> "p"
       [] c = "Q" -> "q" [] c = "R" -> "r" [] c = "S" -> "s" [] c = "T" -> "t"
       [] c = "U" -> "u" [] c = "V" -> "v" [] c = "W" -> "w" [] c = "X" -> "x"
       [] c = "Y" -> "y" [] c = "Z" -> "z"
       [] c = "É" -> "é"]

UpperChar(c) == IF c \in DOMAIN UpperMap THEN UpperMap[c] ELSE c
LowerChar(c) == IF c \in DOMAIN LowerMap THEN LowerMap[c] ELSE c

toUpperCase(str) == [i \in 1..Len(str) |-> UpperChar(str[i])]
toLowerCase(str) == [i \in 1..Len(str) |-> LowerChar(str[i])]

\* The characters \w and \b treat as word characters in a regular
\* expression without the u flag: [A-Za-z0-9_].
WordChars ==
  ((DOMAIN UpperMap) \cup (DOMAIN LowerMap) \cup {"0", "1", "2", "3", "4", "5", "6", "7", "8", "9", "_"})
    \ {"é", "É"}

\* TIMEZONE_MAP, in insertion order.
TIMEZONE_MAP ==
  <<
    [key |-> <<"E","a","s","t","e","r","n"," ","S","t","a","n","d","a","r","d"," ","T","i","m","e">>,
     zone |-> "America/New_York"],
    [key |-> <<"E","a","s","t","e","r","n"," ","D","a","y","l","i","g","h","t"," ","T","i","m","e">>,
     zone |-> "America/New_York"],
    [key |-> <<"E","a","s","t","e","r","n"," ","T","i","m","e">>,
     zone |-> "America/New_York"],
    [key |-> <<"E","a","s","t","e","r","n">>,
     zone |-> "America/New_York"],
    [key |-> <<"E","S","T">>,
     zone |-> "America/New_York"],
    [key |-> <<"E","D","T">>,
     zone |-> "America/New_York"],
    [key |-> <<"E","T">>,
     zone |-> "America/New_York"],
    [key |-> <<"C","e","n","t","r","a","l"," ","S","t","a","n","d","a","r","d"," ","T","i","m","e">>,
     zone |-> "America/Chicago"],
    [key |-> <<"C","e","n","t","r","a","l"," ","D","a","y","l","i","g","h","t"," ","T","i","m","e">>,
     zone |-> "America/Chicago"],
    [key |-> <<"C","e","n","t","r","a","l"," ","T","i","m","e">>,
     zone |-> "America/Chicago"],
    [key |-> <<"C","e","n","t","r","a","l">>,
     zone |-> "America/Chicago"],
    [key |-> <<"C","S","T">>,
     zone |-> "America/Chicago"],
    [key |-> <<"C","D","T">>,
     zone |-> "America/Chicago"],
    [key |-> <<"C","T">>,
     zone |-> "America/Chicago"],
    [key |-> <<"M","o","u","n","t","a","i","n"," ","S","t","a","n","d","a","r","d"," ","T","i","m","e">>,
     zone |-> "America/Denver"],
    [key |-> <<"M","o","u","n","t","a","i","n"," ","D","a","y","l","i","g","h","t"," ","T","i","m","e">>,
     zone |-> "America/Denver"],
    [key |-> <<"M","o","u","n","t","a","i","n"," ","T","i","m","e">>,
     zone |-> "America/Denver"],
    [key |-> <<"M","o","u","n","t","a","i","n">>,
     zone |-> "America/Denver"],
    [key |-> <<"M","S","T">>,
     zone |-> "America/Denver"],
    [key |-> <<"M","D","T">>,
     zone |-> "America/Denver"],
    [key |-> <<"M","T">>,
     zone |-> "America/Denver"],
    [key |-> <<"P","a","c","i","f","i","c"," ","S","t","a","n","d","a","r","d"," ","T","i","m","e">>,
     zone |-> "America/Los_Angeles"],
    [key |-> <<"P","a","c","i","f","i","c"," ","D","a","y","l","i","g","h","t"," ","T","i","m","e">>,
     zone |-> "America/Los_Angeles"],
    [key |-> <<"P","a","c","i","f","i","c"," ","T","i","m","e">>,
     zone |-> "America/Los_Angeles"],
    [key |-> <<"P","a","c","i","f","i","c">>,
     zone |-> "America/Los_Angeles"],
    [key |-> <<"P","S","T">>,
     zone |-> "America/Los_Angeles"],
    [key |-> <<"P","D","T">>,
     zone |-> "America/Los_Angeles"],
    [key |-> <<"P","T">>,
     zone |-> "America/Los_Angeles"],
    [key |-> <<"A","l","a","s","k","a"," ","S","t","a","n","d","a","r","d"," ","T","i","m","e">>,
     zone |-> "America/Anchorage"],
    [key |-> <<"A","l","a","s","k","a"," ","D","a","y","l","i","g","h","t"," ","T","i","m","e">>,
     zone |-> "America/Anchorage"],
    [key |-> <<"A","l","a","s","k","a"," ","T","i","m","e">>,
     zone |-> "America/Anchorage"],
    [key |-> <<"A","l","a","s","k","a">>,
     zone |-> "America/Anchorage"],
    [key |-> <<"A","K","S","T">>,
     zone |-> "America/Anchorage"],
    [key |-> <<"A","K","D","T">>,
     zone |-> "America/Anchorage"],
    [key |-> <<"A","K","T">>,
     zone |-> "America/Anchorage"],
    [key |-> <<"H","a","w","a","i","i"," ","S","t","a","n","d","a","r","d"," ","T","i","m","e">>,
     zone |-> "Pacific/Honolulu"],
    [key |-> <<"H","a","w","a","i","i"," ","T","i","m","e">>,
     zone |-> "Pacific/Honolulu"],
    [key |-> <<"H","a","w","a","i","i">>,
     zone |-> "Pacific/Honolulu"],
    [key |-> <<"H","S","T">>,
     zone |-> "Pacific/Honolulu"],
    [key |-> <<"H","T">>,
     zone |-> "Pacific/Honolulu"],
    [key |-> <<"A","t","l","a","n","t","i","c"," ","S","t","a","n","d","a","r","d"," ","T","i","m","e">>,
     zone |-> "America/Halifax"],
    [key |-> <<"A","t","l","a","n","t","i","c"," ","D","a","y","l","i","g","h","t"," ","T","i","m","e">>,
     zone |-> "America/Halifax"],
    [key |-> <<"A","t","l","a","n","t","i","c"," ","T","i","m","e">>,
     zone |-> "America/Halifax"],
    [key |-> <<"A","t","l","a","n","t","i","c">>,
     zone |-> "America/Halifax"],
    [key |-> <<"A","S","T">>,
     zone |-> "America/Halifax"],
    [key |-> <<"A","D","T">>,
     zone |-> "America/Halifax"],
    [key |-> <<"A","T">>,
     zone |-> "America/Halifax"],
    [key |-> <<"U","T","C">>,
     zone |-> "UTC"],
    [key |-> <<"G","M","T">>,
     zone |-> "GMT"],
    [key |-> <<"C","e","n","t","r","a","l"," ","E","u","r","o","p","e","a","n"," ","S","u","m","m","e","r"," ","T","i","m","e">>,
     zone |-> "Europe/Paris"],
    [key |-> <<"C","e","n","t","r","a","l"," ","E","u","r","o","p","e","a","n"," ","T","i","m","e">>,
     zone |-> "Europe/Paris"],
    [key |-> <<"C","E","S","T">>,
     zone |-> "Europe/Paris"],
    [key |-> <<"C","E","T">>,
     zone |-> "Europe/Paris"],
    [key |-> <<"B","r","i","t","i","s","h"," ","S","u","m","m","e","r"," ","T","i","m","e">>,
     zone |-> "Europe/London"],
    [key |-> <<"B","r","i","t","i","s","h">>,
     zone |-> "Europe/London"],
    [key |-> <<"B","S","T">>,
     zone |-> "Europe/London"],
    [key |-> <<"W","e","s","t","e","r","n"," ","E","u","r","o","p","e","a","n"," ","S","u","m","m","e","r"," ","T","i","m","e">>,
     zone |-> "Europe/Lisbon"],
    [key |-> <<"W","e","s","t","e","r","n"," ","E","u","r","o","p","e","a","n"," ","T","i","m","e">>,
     zone |-> "Europe/Lisbon"],
    [key |-> <<"W","E","S","T">>,
     zone |-> "Europe/Lisbon"],
    [key |-> <<"W","E","T">>,
     zone |-> "Europe/Lisbon"],
    [key |-> <<"E","a","s","t","e","r","n"," ","E","u","r","o","p","e","a","n"," ","S","u","m","m","e","r"," ","T","i","m","e">>,
     zone |-> "Europe/Helsinki"],
    [key |-> <<"E","a","s","t","e","r","n"," ","E","u","r","o","p","e","a","n"," ","T","i","m","e">>,
     zone |-> "Europe/Helsinki"],
    [key |-> <<"E","E","S","T">>,
     zone |-> "Europe/Helsinki"],
    [key |-> <<"E","E","T">>,
     zone |-> "Europe/Helsinki"],
    [key |-> <<"I","S","T">>,
     zone |-> "Asia/Kolkata"],
    [key |-> <<"I","n","d","i","a">>,
     zone |-> "Asia/Kolkata"],
    [key |-> <<"I","n","d","i","a","n"," ","S","t","a","n","d","a","r","d"," ","T","i","m","e">>,
     zone |-> "Asia/Kolkata"],
    [key |-> <<"J","S","T">>,
     zone |-> "Asia/Tokyo"],
    [key |-> <<"J","a","p","a","n">>,
     zone |-> "Asia/Tokyo"],
    [key |-> <<"J","a","p","a","n"," ","S","t","a","n","d","a","r","d"," ","T","i","m","e">>,
     zone |-> "Asia/Tokyo"],
    [key |-> <<"K","S","T">>,
     zone |-> "Asia/Seoul"],
    [key |-> <<"K","o","r","e","a">>,
     zone |-> "Asia/Seoul"],
    [key |-> <<"K","o","r","e","a"," ","S","t","a","n","d","a","r","d"," ","T","i","m","e">>,
     zone |-> "Asia/Seoul"],
    [key |-> <<"C","S","T","+","8">>,
     zone |-> "Asia/Shanghai"],
    [key |-> <<"C","h","i","n","a">>,
     zone |-> "Asia/Shanghai"],
    [key |-> <<"C","h","i","n","a"," ","S","t","a","n","d","a","r","d"," ","T","i","m","e">>,
     zone |-> "Asia/Shanghai"],
    [key |-> <<"S","G","T">>,
     zone |-> "Asia/Singapore"],
    [key |-> <<"S","i","n","g","a","p","o","r","e">>,
     zone |-> "Asia/Singapore"],
    [key |-> <<"S","i","n","g","a","p","o","r","e"," ","T","i","m","e">>,
     zone |-> "Asia/Singapore"],
    [key |-> <<"H","K","T">>,
     zone |-> "Asia/Hong_Kong"],
    [key |-> <<"H","o","n","g"," ","K","o","n","g">>,
     zone |-> "Asia/Hong_Kong"],
    [key |-> <<"I","C","T">>,
     zone |-> "Asia/Bangkok"],
    [key |-> <<"I","n","d","o","c","h","i","n","a">>,
     zone |-> "Asia/Bangkok"],
    [key |-> <<"P","K","T">>,
     zone |-> "Asia/Karachi"],
    [key |-> <<"P","a","k","i","s","t","a","n">>,
     zone |-> "Asia/Karachi"],
    [key |-> <<"A","E","S","T">>,
     zone |-> "Australia/Sydney"],
    [key |-> <<"A","E","D","T">>,
     zone |-> "Australia/Sydney"],
    [key |-> <<"A","u","s","t","r","a","l","i","a","n"," ","E","a","s","t","e","r","n"," ","T","i","m","e">>,
     zone |-> "Australia/Sydney"],
    [key |-> <<"A","u","s","t","r","a","l","i","a","n"," ","E","a","s","t","e","r","n"," ","S","t","a","n","d","a","r","d"," ","T","i","m","e">>,
     zone |-> "Australia/Sydney"],
    [key |-> <<"A","u","s","t","r","a","l","i","a","n"," ","E","a","s","t","e","r","n"," ","D","a","y","l","i","g","h","t"," ","T","i","m","e">>,
     zone |-> "Australia/Sydney"],
    [key |-> <<"A","C","S","T">>,
     zone |-> "Australia/Adelaide"],
    [key |-> <<"A","C","D","T">>,
     zone |-> "Australia/Adelaide"],
    [key |-> <<"A","u","s","t","r","a","l","i","a","n"," ","C","e","n","t","r","a","l"," ","T","i","m","e">>,
     zone |-> "Australia/Adelaide"],
    [key |-> <<"A","W","S","T">>,
     zone |-> "Australia/Perth"],
    [key |-> <<"A","u","s","t","r","a","l","i","a","n"," ","W","e","s","t","e","r","n"," ","T","i","m","e">>,
     zone |-> "Australia/Perth"],
    [key |-> <<"A","u","s","t","r","a","l","i","a","n"," ","W","e","s","t","e","r","n"," ","S","t","a","n","d","a","r","d"," ","T","i","m","e">>,
     zone |-> "Australia/Perth"],
    [key |-> <<"N","Z","S","T">>,
     zone |-> "Pacific/Auckland"],
    [key |-> <<"N","Z","D","T">>,
     zone |-> "Pacific/Auckland"],
    [key |-> <<"N","e","w"," ","Z","e","a","l","a","n","d">>,
     zone |-> "Pacific/Auckland"],
    [key |-> <<"N","e","w"," ","Z","e","a","l","a","n","d"," ","S","t","a","n","d","a","r","d"," ","T","i","m","e">>,
     zone |-> "Pacific/Auckland"],
    [key |-> <<"N","e","w"," ","Z","e","a","l","a","n","d"," ","D","a","y","l","i","g","h","t"," ","T","i","m","e">>,
     zone |-> "Pacific/Auckland"],
    [key |-> <<"B","R","T">>,
     zone |-> "America/Sao_Paulo"],
    [key |-> <<"B","r","a","z","i","l">>,
     zone |-> "America/Sao_Paulo"],
    [key |-> <<"B","r","a","s","i","l","i","a">>,
     zone |-> "America/Sao_Paulo"],
    [key |-> <<"A","R","T">>,
     zone |-> "America/Argentina/Buenos_Aires"],
    [key |-> <<"A","r","g","e","n","t","i","n","a">>,
     zone |-> "America/Argentina/Buenos_Aires"]
  >>

NumKeys == Len(TIMEZONE_MAP)

\* TIMEZONE_MAP.get(key): the value of the entry a key names (the last one
\* set for it).
MapGet(key) ==
  TIMEZONE_MAP[Greatest({i \in 1..NumKeys : TIMEZONE_MAP[i].key = key})].zone

\* The keys left in insertion order (the sort omitted).
SortRank_Unsorted == [i \in 1..NumKeys |-> i]

\* The position of entry i after [...keys()].sort((a, b) => b.length - a.length):
\* longer keys first, and (the sort is stable) equal lengths in insertion order.
SortRank ==
  [i \in 1..NumKeys |->
     1 + Cardinality({j \in 1..NumKeys :
           \/ Len(TIMEZONE_MAP[j].key) > Len(TIMEZONE_MAP[i].key)
           \/ Len(TIMEZONE_MAP[j].key) = Len(TIMEZONE_MAP[i].key) /\ j < i})]

SORTED_KEYS ==
  [r \in 1..NumKeys |-> TIMEZONE_MAP[CHOOSE i \in 1..NumKeys : SortRank[i] = r].key]

\* Whether position j (1-based) of text holds a word character.
IsWordAt(text, j) == j >= 1 /\ j <= Len(text) /\ text[j] \in WordChars

\* \b at 0-based index i: exactly one of the characters on its two sides
\* is a word character.
WordBoundary(text, i) == IsWordAt(text, i) # IsWordAt(text, i + 1)

\* Canonicalize under the i flag (no u flag): the upper-case form.
Canonicalize(c) == UpperChar(c)

\* The alternative \bkey\b (key escaped, so literal) matches at index i.
KeyMatchesAt(text, i, key) ==
  /\ i + Len(key) <= Len(text)
  /\ WordBoundary(text, i)
  /\ \A j \in 1..Len(key) : Canonicalize(text[i + j]) = Canonicalize(key[j])
  /\ WordBoundary(text, i + Len(key))

\* The first of a set of positions in SORTED_KEYS (0: the set is empty).
FirstOf(ks) == IF ks = {} THEN 0 ELSE Least(ks)

\* TIMEZONE_REGEX at index i: the first alternative, in SORTED_KEYS order,
\* that matches there (0: none).
FirstAlternative(text, i) ==
  FirstOf({k \in 1..NumKeys : KeyMatchesAt(text, i, SORTED_KEYS[k])})

NoMatch == [index |-> -1, end |-> -1]

\* TIMEZONE_REGEX.exec(text) with lastIndex = i: the leftmost index at or
\* after i where an alternative matches, with the end of the match (the
\* new lastIndex); NoMatch when there is none (lastIndex becomes 0).
RECURSIVE ExecFrom(_, _)
ExecAt(text, i, k) ==
  IF k # 0 THEN [index |-> i, end |-> i + Len(SORTED_KEYS[k])]
  ELSE ExecFrom(text, i + 1)
ExecFrom(text, i) ==
  IF i >= Len(text) THEN NoMatch
  ELSE ExecAt(text, i, FirstAlternative(text, i))

\* A filter that rejects nothing.
isFalsePositive_Off(raw) == FALSE

\* isFalsePositive(raw).
isFalsePositive(raw) ==
  /\ Len(raw) <= 5 /\ ~(\E j \in 1..Len(raw) : raw[j] = " ")
  /\ raw # toUpperCase(raw)

\* Lines 203-208: the first key of SORTED_KEYS whose lower-case form is lc
\* (0: none).
KeyOfLower(lc) ==
  FirstOf({k \in 1..NumKeys : toLowerCase(SORTED_KEYS[k]) = lc})

\* detectTimezone's loop from lastIndex = i: the value returned and the
\* lastIndex the regex is left with.
RECURSIVE DetectFrom(_, _)
DetectKey(text, m, k) ==
  IF k # 0 THEN [zone |-> MapGet(SORTED_KEYS[k]), match |-> m, lastIndex |-> m.end]
  ELSE DetectFrom(text, m.end)
\* A loop that gives up at the first rejected candidate.
DetectMatch_GiveUp(text, m, raw) ==
  IF isFalsePositive(raw) THEN [zone |-> NULL, match |-> NoMatch, lastIndex |-> m.end]
  ELSE DetectKey(text, m, KeyOfLower(toLowerCase(raw)))
DetectMatch(text, m, raw) ==
  IF isFalsePositive(raw) THEN DetectFrom(text, m.end)
  ELSE DetectKey(text, m, KeyOfLower(toLowerCase(raw)))
DetectExec(text, m) ==
  IF m = NoMatch THEN [zone |-> NULL, match |-> NoMatch, lastIndex |-> 0]
  ELSE DetectMatch(text, m, SubSeq(text, m.index + 1, m.end))
DetectFrom(text, i) == DetectExec(text, ExecFrom(text, i))

\* A call that starts the scan where the regex was left.
ResetLastIndex_Keep(stale) == stale

\* Line 195: TIMEZONE_REGEX.lastIndex = 0, whatever it was (stale).
ResetLastIndex(stale) == 0

\* detectTimezone(text) on a regex whose lastIndex is stale: lastIndex is
\* reset first, then the loop runs.
detectTimezoneOn(text, stale) == DetectFrom(text, ResetLastIndex(stale))

\* detectTimezone(text) as the first call on a fresh regex (lastIndex 0).
detectTimezone(text) == detectTimezoneOn(text, 0)

---------------------------------------------------------------------------
(* src/content/timezone-data.js: the zones offered by the dropdowns.      *)

\* ALL_TIMEZONES, in the order of the source.
ALL_TIMEZONES ==
  <<
    "UTC", "America/Adak", "America/Anchorage",
    "America/Boise", "America/Chicago", "America/Denver",
    "America/Detroit", "America/Halifax", "America/Indiana/Indianapolis",
    "America/Indiana/Knox", "America/Indiana/Marengo", "America/Indiana/Petersburg",
    "America/Indiana/Tell_City", "America/Indiana/Vevay", "America/Indiana/Vincennes",
    "America/Indiana/Winamac", "America/Juneau", "America/Kentucky/Louisville",
    "America/Kentucky/Monticello", "America/Los_Angeles", "America/Menominee",
    "America/Metlakatla", "America/New_York", "America/Nome",
    "America/North_Dakota/Beulah", "America/North_Dakota/Center", "America/North_Dakota/New_Salem",
    "America/Phoenix", "America/Puerto_Rico", "America/Sitka",
    "America/St_Thomas", "America/Yakutat", "Pacific/Honolulu",
    "Pacific/Midway", "Pacific/Pago_Pago", "America/Toronto",
    "America/Vancouver", "America/Winnipeg", "America/Edmonton",
    "America/Regina", "America/St_Johns", "America/Mexico_City",
    "America/Cancun", "America/Monterrey", "America/Bogota",
    "America/Lima", "America/Caracas", "America/Santiago",
    "America/Sao_Paulo", "America/Argentina/Buenos_Aires", "America/Montevideo",
    "Atlantic/Azores", "Atlantic/Cape_Verde", "Atlantic/Reykjavik",
    "Europe/London", "Europe/Lisbon", "Europe/Dublin",
    "Europe/Paris", "Europe/Berlin", "Europe/Rome",
    "Europe/Madrid", "Europe/Amsterdam", "Europe/Brussels",
    "Europe/Vienna", "Europe/Zurich", "Europe/Stockholm",
    "Europe/Oslo", "Europe/Copenhagen", "Europe/Warsaw",
    "Europe/Prague", "Europe/Budapest", "Europe/Bucharest",
    "Europe/Sofia", "Europe/Athens", "Europe/Helsinki",
    "Europe/Riga", "Europe/Tallinn", "Europe/Vilnius",
    "Europe/Kiev", "Europe/Minsk", "Europe/Moscow",
    "Europe/Samara", "Europe/Istanbul", "Africa/Abidjan",
    "Africa/Cairo", "Africa/Casablanca", "Africa/Johannesburg",
    "Africa/Lagos", "Africa/Nairobi", "Asia/Dubai",
    "Asia/Riyadh", "Asia/Baghdad", "Asia/Tehran",
    "Asia/Jerusalem", "Asia/Beirut", "Asia/Kuwait",
    "Asia/Qatar", "Asia/Karachi", "Asia/Kolkata",
    "Asia/Colombo", "Asia/Dhaka", "Asia/Kathmandu",
    "Asia/Almaty", "Asia/Tashkent", "Asia/Yekaterinburg",
    "Asia/Omsk", "Asia/Krasnoyarsk", "Asia/Novosibirsk",
    "Asia/Bangkok", "Asia/Ho_Chi_Minh", "Asia/Jakarta",
    "Asia/Singapore", "Asia/Shanghai", "Asia/Hong_Kong",
    "Asia/Taipei", "Asia/Kuala_Lumpur", "Asia/Manila",
    "Asia/Makassar", "Asia/Irkutsk", "Asia/Seoul",
    "Asia/Tokyo", "Asia/Yakutsk", "Asia/Vladivostok",
    "Asia/Magadan", "Asia/Kamchatka", "Asia/Sakhalin",
    "Australia/Perth", "Australia/Adelaide", "Australia/Darwin",
    "Australia/Brisbane", "Australia/Sydney", "Australia/Melbourne",
    "Australia/Hobart", "Australia/Lord_Howe", "Pacific/Auckland",
    "Pacific/Chatham", "Pacific/Fiji", "Pacific/Guam",
    "Pacific/Noumea", "Pacific/Port_Moresby", "Pacific/Tongatapu"
  >>

---------------------------------------------------------------------------
(* src/content/dialog.js: the translation dialog.                          *)

\* buildTimezoneOptions(selectedTZ): one option per entry of ALL_TIMEZONES,
\* marked selected when its value is selectedTZ.
buildTimezoneOptions(selectedTZ) ==
  [i \in 1..Len(ALL_TIMEZONES) |->
     [value |-> ALL_TIMEZONES[i], selected |-> ALL_TIMEZONES[i] = selectedTZ]]

\* The value of a select element the options have been appended to: that of
\* the last option marked selected, and of the first option when none is.
SelectedIndex(marked) == IF marked = {} THEN 1 ELSE Greatest(marked)
SelectValue(options) ==
  options[SelectedIndex({i \in 1..Len(options) : options[i].selected})].value

\* getLocalTimezone(): Intl.DateTimeFormat().resolvedOptions().timeZone.
getLocalTimezone == hostTZ

\* detectedTZ || localTZ (a detected zone is never the empty string).
DetectedOrLocal(detectedTZ, localTZ) == IF detectedTZ = NULL THEN localTZ ELSE detectedTZ

\* The result box before updateResult has run, and after it: the three
\* text nodes.  kind tells a result from the error texts.
EmptyBox == [kind |-> "empty", date |-> "", time |-> "", tz |-> ""]
ResultBox(conv) ==
  [kind |-> "result", date |-> conv.displayDate, time |-> conv.displayTime,
   tz |-> conv.displayTZ]
ErrorBox(message) ==
  [kind |-> "error", date |-> "", time |-> "Conversion error", tz |-> message]

\* copyBtn.dataset.copyText after a successful conversion: displayDate,
\* newline, displayTime, space, displayTZ (the three parts of the string).
CopyText(conv) ==
  Some([date |-> conv.displayDate, time |-> conv.displayTime, tz |-> conv.displayTZ])

\* A change handler that does nothing.
updateResult_Skip(d) == d

\* updateResult(): the try branch writes the box and the copy text, the
\* catch branch writes the box only.
updateResultWith(d, completion) ==
  IF completion.kind = "throw"
  THEN [d EXCEPT !.box = ErrorBox(completion.value)]
  ELSE [d EXCEPT !.box = ResultBox(completion.value),
                 !.copyText = CopyText(completion.value)]
updateResult(d) ==
  updateResultWith(d, convertCompletion(d.parsed[1], d.from, d.to))

\* The dialog showDialog builds, with the arguments it was called with.
\* Without a parsed moment: the error box only, no dropdowns, result box or
\* copy button.
ErrorDialog(detectedTZ) ==
  [parsed |-> None, detectedTZ |-> detectedTZ, badge |-> FALSE,
   from |-> NULL, to |-> NULL, box |-> EmptyBox, copyText |-> None]

\* With one: both selects filled, the "detected" badge, the result box and
\* the copy button, then the first updateResult().
ResultDialog(parsed, detectedTZ, localTZ) ==
  updateResult(
    [parsed |-> parsed,
     detectedTZ |-> detectedTZ,
     badge |-> detectedTZ # NULL,
     from |-> SelectValue(buildTimezoneOptions(DetectedOrLocal(detectedTZ, localTZ))),
     to |-> SelectValue(buildTimezoneOptions(localTZ)),
     box |-> EmptyBox,
     copyText |-> None])

NewDialog(parsed, detectedTZ) ==
  IF parsed = None THEN ErrorDialog(detectedTZ)
  ELSE ResultDialog(parsed, detectedTZ, getLocalTimezone)

\* document.removeEventListener("keydown", onKeyDown) and
\* document.addEventListener("keydown", onKeyDown) on n registrations: a
\* registration is removed if there is one, and a listener that is
\* registered already is not registered again.
RemoveListener(n) == IF n = 0 THEN 0 ELSE n - 1
AddListener(n) == IF n = 0 THEN 1 ELSE n

\* A removeDialog that leaves the key handler registered.
ListenersAfterRemove_Keep(n) == n

\* removeDialog(): the first element with the host's id is removed, and
\* onKeyDown is unregistered.
HostsAfterRemove(hosts) == IF hosts = <<>> THEN hosts ELSE Tail(hosts)
ListenersAfterRemove(n) == RemoveListener(n)

\* setupKeyClose(): removeEventListener, then addEventListener.
setupKeyClose(n) == AddListener(RemoveListener(n))

\* showDialog: removeDialog(), the new host appended to the body, and (on
\* both paths) setupKeyClose().
HostsAfterShow(hosts, dialog) == Append(HostsAfterRemove(hosts), dialog)
ListenersAfterShow(n) == setupKeyClose(ListenersAfterRemove(n))

\* The copy button's click: dataset.copyText || "" (None: the empty text).
TextToCopy(d) == d.copyText

---------------------------------------------------------------------------
(* Inputs of the resolver.                                                 *)

\* Bounds of the input space.
DaySpan == 1          \* days taken on each side of every zone transition
MinuteStep == 30      \* wall-clock minutes are the multiples of this step
RangeMinutes == 90    \* length of the ranges handed to convertParsed

HostZones == {"UTC", "America/New_York"}
UnknownZone == "Mars/Phobos"
ZoneInputs == DOMAIN ZoneRules \cup {UnknownZone}
ConvertZones ==
  {"UTC", "GMT", "America/New_York", "America/Los_Angeles", "Europe/Paris",
   UnknownZone}

\* Every transition instant of the zone database, and the UTC day numbers
\* on which one occurs.
Transitions(tz) == {ZoneRules[tz].trans[i].at : i \in 1..Len(ZoneRules[tz].trans)}
TransitionDays == UNION {{t \div 86400 : t \in Transitions(tz)} : tz \in DOMAIN ZoneRules}

\* The dates of the test suite's conversion fixtures (2025-02-18, 2025-02-19).
FixtureDays == {DaysFromCivil(2025, 2, 18), DaysFromCivil(2025, 2, 19)}

ResolveDays ==
  FixtureDays \cup {d + k : d \in TransitionDays, k \in (0 - DaySpan)..DaySpan}
ConvertDays == FixtureDays \cup TransitionDays

Minutes == {m \in 0..59 : m % MinuteStep = 0}
TimesOfDay ==
  {[hour |-> h, minute |-> mi, second |-> 0] : h \in 0..23, mi \in Minutes}
    \cup {[hour |-> 23, minute |-> 59, second |-> 59]}

\* A wall-clock value: a calendar date with a time of day.
WallClock(day, tod) ==
  LET c == CivilFromDays(day)
  IN  [year |-> c.year, month |-> c.month, day |-> c.day,
       hour |-> tod.hour, minute |-> tod.minute, second |-> tod.second]

ResolveWallClocks == {WallClock(d, tod) : d \in ResolveDays, tod \in TimesOfDay}
ConvertWallClocks ==
  {WallClock(d, [hour |-> h, minute |-> 0, second |-> 0]) : d \in ConvertDays, h \in 0..23}

\* The Date the host builds for a wall-clock value, as the tests' makeDate
\* and componentsToWallClock do.
DateOfWallClock(w) == NewDateLocal(w.year, w.month - 1, w.day, w.hour, w.minute, w.second)

---------------------------------------------------------------------------
(* The state machine: a call is chosen at start-up, then runs.             *)

InitResolve ==
  /\ hostTZ \in HostZones
  /\ midnight24 \in BOOLEAN
  /\ lastIndex = 0
  /\ pc = "ready"
  /\ PageLoaded
  /\ ret = Pending
  /\ \E w \in ResolveWallClocks, z \in ZoneInputs :
       call = [op |-> "wallClockToUTC", parsedDate |-> DateOfWallClock(w), fromTZ |-> z]

InitConvert ==
  /\ hostTZ \in HostZones
  /\ midnight24 \in BOOLEAN
  /\ lastIndex = 0
  /\ pc = "ready"
  /\ PageLoaded
  /\ ret = Pending
  /\ \E w \in ConvertWallClocks, range \in BOOLEAN, from \in ConvertZones, to \in ConvertZones :
       LET start == DateOfWallClock(w)
           end   == IF range
                    THEN Some(NewDateLocal(w.year, w.month - 1, w.day, w.hour,
                                           w.minute + RangeMinutes, w.second))
                    ELSE None
       IN  call = [op |-> "convertParsed",
                   parsed |-> [start |-> start, end |-> end, hasRange |-> end # None],
                   fromTZ |-> from, toTZ |-> to]

\* wallClockToUTC runs.
Resolve ==
  /\ pc = "ready"
  /\ call.op = "wallClockToUTC"
  /\ ret' = wallClockToUTC(call.parsedDate, call.fromTZ)
  /\ pc' = "done"
  /\ UNCHANGED <<call, lastIndex, hostTZ, midnight24, page>>

\* convertParsed runs.
ConvertEnds(completion) ==
  /\ ret' = completion.value
  /\ pc' = IF completion.kind = "throw" THEN "threw" ELSE "done"
Convert ==
  /\ pc = "ready"
  /\ call.op = "convertParsed"
  /\ ConvertEnds(convertCompletion(call.parsed, call.fromTZ, call.toTZ))
  /\ UNCHANGED <<call, lastIndex, hostTZ, midnight24, page>>

\* Inputs of componentsToWallClock: what the extractor may supply for each
\* field, and the reference instants (2025-02-19T15:00Z, 2025-01-31T23:30Z,
\* 2025-03-09T12:00Z, and 2025-02-01T03:00Z, which is still January 31 in
\* New York).
ComponentInputs ==
  [year     : {None, Some(2025)},
   month    : {None, Some(2), Some(3)},
   day      : {None, Some(9)},
   hour     : {None} \cup {Some(h) : h \in 0..23},
   minute   : {None, Some(30)},
   second   : {None, Some(15)},
   meridiem : {None, Some(0), Some(1)}]

RefInputs ==
  {DateUTC(2025, 1, 19, 15, 0, 0), DateUTC(2025, 0, 31, 23, 30, 0),
   DateUTC(2025, 2, 9, 12, 0, 0), DateUTC(2025, 1, 1, 3, 0, 0)}

InitWall ==
  /\ hostTZ \in HostZones
  /\ midnight24 = FALSE
  /\ lastIndex = 0
  /\ pc = "ready"
  /\ PageLoaded
  /\ ret = Pending
  /\ \E c \in ComponentInputs, r \in RefInputs :
       call = [op |-> "componentsToWallClock", components |-> c, ref |-> r]

\* componentsToWallClock runs: ret holds the arguments it handed to the
\* Date constructor and the Date it returned.
ToWallClock ==
  /\ pc = "ready"
  /\ call.op = "componentsToWallClock"
  /\ ret' = [args |-> WallClockArgs(call.components, call.ref),
             date |-> componentsToWallClock(call.components, call.ref)]
  /\ pc' = "done"
  /\ UNCHANGED <<call, lastIndex, hostTZ, midnight24, page>>

\* Inputs of detectTimezone.  Sentences around one alias: the words before
\* it ("", "call at 5pm ", "18:00 ") and after it ("", " please").
AliasLeads ==
  { <<>>,
    <<"c", "a", "l", "l", " ", "a", "t", " ", "5", "p", "m", " ">>,
    <<"1", "8", ":", "0", "0", " ">> }
AliasTails ==
  { <<>>,
    <<" ", "p", "l", "e", "a", "s", "e">> }

\* Texts built from pieces: "ET", "et", "PT", " ", "me", "ing", "É",
\* "India", "Central", " European", " Time", "9".
MaxPieces == 3
Pieces ==
  { <<"E", "T">>,
    <<"e", "t">>,
    <<"P", "T">>,
    <<" ">>,
    <<"m", "e">>,
    <<"i", "n", "g">>,
    <<"É">>,
    <<"I", "n", "d", "i", "a">>,
    <<"C", "e", "n", "t", "r", "a", "l">>,
    <<" ", "E", "u", "r", "o", "p", "e", "a", "n">>,
    <<" ", "T", "i", "m", "e">>,
    <<"9">> }

RECURSIVE Concat(_)
Concat(parts) == IF parts = <<>> THEN <<>> ELSE Head(parts) \o Concat(Tail(parts))

PieceTexts == {Concat(p) : p \in UNION {[1..n -> Pieces] : n \in 0..MaxPieces}}

\* The sentences of the test suite and of the documentation:
\* "Live at 9pm ET / 6pm PT", "meeting at 3pm", "tomorrow at noon",
\* "hello world", "meeting", "lunch et dinner", "lunch ET dinner",
\* "Central European Time", "Eastern Standard Time", "3pm cst+8 or PT",
\* "DÉPT 5".
FixtureTexts ==
  { <<"L", "i", "v", "e", " ", "a", "t", " ", "9", "p", "m", " ", "E", "T", " ", "/", " ", "6", "p", "m", " ", "P", "T">>,
    <<"m", "e", "e", "t", "i", "n", "g", " ", "a", "t", " ", "3", "p", "m">>,
    <<"t", "o", "m", "o", "r", "r", "o", "w", " ", "a", "t", " ", "n", "o", "o", "n">>,
    <<"h", "e", "l", "l", "o", " ", "w", "o", "r", "l", "d">>,
    <<"m", "e", "e", "t", "i", "n", "g">>,
    <<"l", "u", "n", "c", "h", " ", "e", "t", " ", "d", "i", "n", "n", "e", "r">>,
    <<"l", "u", "n", "c", "h", " ", "E", "T", " ", "d", "i", "n", "n", "e", "r">>,
    <<"C", "e", "n", "t", "r", "a", "l", " ", "E", "u", "r", "o", "p", "e", "a", "n", " ", "T", "i", "m", "e">>,
    <<"E", "a", "s", "t", "e", "r", "n", " ", "S", "t", "a", "n", "d", "a", "r", "d", " ", "T", "i", "m", "e">>,
    <<"3", "p", "m", " ", "c", "s", "t", "+", "8", " ", "o", "r", " ", "P", "T">>,
    <<"D", "É", "P", "T", " ", "5">> }

ScanTexts == FixtureTexts \cup PieceTexts

\* The lastIndex an earlier call may have left on the shared regex.
StaleIndexes == {0, 2}

InitAlias ==
  /\ hostTZ = "UTC"
  /\ midnight24 = FALSE
  /\ lastIndex \in StaleIndexes
  /\ pc = "ready"
  /\ PageLoaded
  /\ ret = Pending
  /\ \E k \in 1..NumKeys, lead \in AliasLeads, tail \in AliasTails :
       call = [op |-> "detectTimezone", key |-> TIMEZONE_MAP[k].key,
               text |-> lead \o TIMEZONE_MAP[k].key \o tail]

InitScan ==
  /\ hostTZ = "UTC"
  /\ midnight24 = FALSE
  /\ lastIndex \in StaleIndexes
  /\ pc = "ready"
  /\ PageLoaded
  /\ ret = Pending
  /\ \E t \in ScanTexts : call = [op |-> "detectTimezone", text |-> t]

\* detectTimezone runs: ret holds the value returned and the match it was
\* returned for; the regex keeps the lastIndex of its last exec.
DetectResult(r) ==
  /\ ret' = [zone |-> r.zone, match |-> r.match]
  /\ lastIndex' = r.lastIndex
Detect ==
  /\ pc = "ready"
  /\ call.op = "detectTimezone"
  /\ DetectResult(detectTimezoneOn(call.text, lastIndex))
  /\ pc' = "done"
  /\ UNCHANGED <<call, hostTZ, midnight24, page>>

\* Inputs of normalizeForChrono: every text of at most MaxText characters
\* over a letter, the comma, white space, the three separators and the
\* en-dash, and sentences of the test suite ("February 19th | 6:00 PM", the
\* same with an em-dash, an en-dash and a bullet) and "a|||b".
MaxText == 4
NormalizeAlphabet == {"a", ",", " ", "\n", "|", "EM DASH", "BULLET", "EN DASH"}
SeparatorTexts ==
  { <<"F", "e", "b", "r", "u", "a", "r", "y", " ", "1", "9", "t", "h", " ", "|", " ", "6", ":", "0", "0", " ", "P", "M">>,
    <<"F", "e", "b", "r", "u", "a", "r", "y", " ", "1", "9", "t", "h", " ", "EM DASH", " ", "6", ":", "0", "0", " ", "P", "M">>,
    <<"F", "e", "b", "r", "u", "a", "r", "y", " ", "1", "9", "t", "h", " ", "EN DASH", " ", "6", ":", "0", "0", " ", "P", "M">>,
    <<"F", "e", "b", "r", "u", "a", "r", "y", " ", "1", "9", "t", "h", " ", "BULLET", " ", "6", ":", "0", "0", " ", "P", "M">>,
    <<"a", "|", "|", "|", "b">> }
NormalizeTexts ==
  UNION {[1..n -> NormalizeAlphabet] : n \in 0..MaxText} \cup SeparatorTexts

InitNormalize ==
  /\ hostTZ = "UTC"
  /\ midnight24 = FALSE
  /\ lastIndex = 0
  /\ pc = "ready"
  /\ PageLoaded
  /\ ret = Pending
  /\ \E t \in NormalizeTexts : call = [op |-> "normalizeForChrono", text |-> t]

\* normalizeForChrono runs.
Normalize ==
  /\ pc = "ready"
  /\ call.op = "normalizeForChrono"
  /\ ret' = normalizeForChrono(call.text)
  /\ pc' = "done"
  /\ UNCHANGED <<call, lastIndex, hostTZ, midnight24, page>>

\* Inputs of parseSelectedText.  The texts: "", "  ", "hello world",
\* "9am-5pm", "February 19th | 6:00 PM".
ParseTexts ==
  { <<>>,
    <<" ", " ">>,
    <<"h", "e", "l", "l", "o", " ", "w", "o", "r", "l", "d">>,
    <<"9", "a", "m", "-", "5", "p", "m">>,
    <<"F", "e", "b", "r", "u", "a", "r", "y", " ", "1", "9", "t", "h", " ", "|", " ", "6", ":", "0", "0", " ", "P", "M">> }

\* What the extractor reports for an endpoint: 9 AM; February 19, 6 PM;
\* an hour of 12 alone.
ParseComponents ==
  { [year |-> None, month |-> None, day |-> None, hour |-> Some(9),
     minute |-> Some(0), second |-> None, meridiem |-> Some(0)],
    [year |-> None, month |-> Some(2), day |-> Some(19), hour |-> Some(6),
     minute |-> Some(0), second |-> None, meridiem |-> Some(1)],
    [year |-> None, month |-> None, day |-> None, hour |-> Some(12),
     minute |-> None, second |-> None, meridiem |-> None] }

\* A match has a start and, for an explicit range, an end.
ParseMatches ==
  [start : ParseComponents, end : {None} \cup {Some(c) : c \in ParseComponents}]

\* What chrono.parse may answer for a normalized text: nothing (null or an
\* empty array) or up to MaxMatches matches; for the empty text, nothing.
MaxMatches == 2
ExtractorAnswers(normalized) ==
  IF normalized = <<>> THEN {None, Some(<<>>)}
  ELSE {None} \cup {Some(ms) : ms \in UNION {[1..n -> ParseMatches] : n \in 0..MaxMatches}}

InitParse ==
  /\ hostTZ \in HostZones
  /\ midnight24 = FALSE
  /\ lastIndex = 0
  /\ pc = "ready"
  /\ PageLoaded
  /\ ret = Pending
  /\ \E t \in ParseTexts, r \in RefInputs :
       \E a \in ExtractorAnswers(normalizeForChrono(t)) :
         call = [op |-> "parseSelectedText", text |-> t, ref |-> r, results |-> a]

\* parseSelectedText runs: ref is the clock's reading, results the
\* extractor's answer for the normalized text.
ParseEnds(completion) ==
  /\ ret' = completion.value
  /\ pc' = IF completion.kind = "throw" THEN "threw" ELSE "done"
Parse ==
  /\ pc = "ready"
  /\ call.op = "parseSelectedText"
  /\ call.results \in ExtractorAnswers(normalizeForChrono(call.text))
  /\ ParseEnds(parseCompletion(call.results, call.ref))
  /\ UNCHANGED <<call, lastIndex, hostTZ, midnight24, page>>

\* A caller that keeps one ParsedMoment and source zone and converts it
\* again and again, to a target chosen each time (the dialog's
\* updateResult).  ret holds the object as it now is and the results so far.
MaxCalls == 3
SessionZones == {"UTC", "America/New_York", "Europe/Paris", UnknownZone}
SessionWallClocks ==
  {WallClock(d, [hour |-> h, minute |-> 0, second |-> 0]) :
     d \in FixtureDays, h \in {0, 9, 23}}

InitSession ==
  /\ hostTZ \in HostZones
  /\ midnight24 = FALSE
  /\ lastIndex = 0
  /\ pc = "ready"
  /\ PageLoaded
  /\ \E w \in SessionWallClocks, range \in BOOLEAN, from \in SessionZones :
       /\ call = [op |-> "updateResult",
                  parsed |-> [start |-> DateOfWallClock(w),
                              end |-> IF range
                                      THEN Some(NewDateLocal(w.year, w.month - 1, w.day, w.hour,
                                                             w.minute + RangeMinutes, w.second))
                                      ELSE None,
                              hasRange |-> range],
                  fromTZ |-> from]
       /\ ret = [parsed |-> call.parsed, results |-> <<>>]

\* One more convertParsed on the kept object, to target to.
ConvertAgain ==
  /\ pc = "ready"
  /\ call.op = "updateResult"
  /\ \E to \in SessionZones :
       ret' = [parsed |-> ParsedAfterConvert(ret.parsed, call.fromTZ, to),
               results |-> Append(ret.results,
                                  [toTZ |-> to,
                                   result |-> convertParsed(ret.parsed, call.fromTZ, to)])]
  /\ pc' = IF Len(ret.results) + 1 >= MaxCalls THEN "done" ELSE "ready"
  /\ UNCHANGED <<call, lastIndex, hostTZ, midnight24, page>>

\* Inputs of convertParsed for ranges of every short length: the start is a
\* wall clock around a transition of some zone, the end follows it by a
\* whole number of minute steps (none included).
MaxRangeSteps == 3
RangeZones == DOMAIN ZoneRules

InitRange ==
  /\ hostTZ \in HostZones
  /\ midnight24 = FALSE
  /\ lastIndex = 0
  /\ pc = "ready"
  /\ PageLoaded
  /\ ret = Pending
  /\ \E w \in ResolveWallClocks, k \in 0..MaxRangeSteps, from \in RangeZones :
       call = [op |-> "convertParsed",
               parsed |-> [start |-> DateOfWallClock(w),
                           end |-> Some(NewDateLocal(w.year, w.month - 1, w.day, w.hour,
                                                     w.minute + k * MinuteStep, w.second)),
                           hasRange |-> TRUE],
               fromTZ |-> from, toTZ |-> "UTC"]

\* The path of one selection from the extractor's components to the
\* resolved instant: parseSelectedText builds the wall-clock Date
\* (componentsToWallClock), convertParsed hands it to wallClockToUTC, which
\* reads its fields back on the host's clock.
PipelineZones == {"UTC", "Europe/Paris", "America/New_York"}

InitPipeline ==
  /\ hostTZ \in HostZones
  /\ midnight24 = FALSE
  /\ lastIndex = 0
  /\ pc = "ready"
  /\ PageLoaded
  /\ ret = Pending
  /\ \E c \in ComponentInputs, r \in RefInputs, z \in PipelineZones :
       call = [op |-> "translate", components |-> c, ref |-> r, fromTZ |-> z]

\* parseSelectedText's componentsToWallClock(result.start, ref).
ParseStart ==
  /\ pc = "ready"
  /\ call.op = "translate"
  /\ ret' = [args |-> WallClockArgs(call.components, call.ref),
             date |-> componentsToWallClock(call.components, call.ref)]
  /\ pc' = "parsed"
  /\ UNCHANGED <<call, lastIndex, hostTZ, midnight24, page>>

\* convertParsed's wallClockToUTC(parsed.start, fromTZ): the fields it reads
\* off the Date and the instant it returns.
ResolveStart ==
  /\ pc = "parsed"
  /\ call.op = "translate"
  /\ ret' = [args |-> ret.args,
             date |-> ret.date,
             read |-> LocalFields(ret.date),
             startUTC |-> wallClockToUTC(ret.date, call.fromTZ)]
  /\ pc' = "done"
  /\ UNCHANGED <<call, lastIndex, hostTZ, midnight24, page>>

\* A page's life: one selection after another goes through detectTimezone
\* on the one shared regex.  ret lists, for every call so far, its text,
\* the lastIndex it found on the regex and the value it returned.  The
\* texts: "", "PT", "lunch ET dinner", "lunch et dinner", "meeting",
\* "Live at 9pm ET / 6pm PT", "Central European Time", "3pm cst+8 or PT".
MaxHistory == 3
HistoryTexts ==
  { <<>>,
    <<"P", "T">>,
    <<"l", "u", "n", "c", "h", " ", "E", "T", " ", "d", "i", "n", "n", "e", "r">>,
    <<"l", "u", "n", "c", "h", " ", "e", "t", " ", "d", "i", "n", "n", "e", "r">>,
    <<"m", "e", "e", "t", "i", "n", "g">>,
    <<"L", "i", "v", "e", " ", "a", "t", " ", "9", "p", "m", " ", "E", "T", " ", "/", " ", "6", "p", "m", " ", "P", "T">>,
    <<"C", "e", "n", "t", "r", "a", "l", " ", "E", "u", "r", "o", "p", "e", "a", "n", " ", "T", "i", "m", "e">>,
    <<"3", "p", "m", " ", "c", "s", "t", "+", "8", " ", "o", "r", " ", "P", "T">> }

InitHistory ==
  /\ hostTZ = "UTC"
  /\ midnight24 = FALSE
  /\ lastIndex = 0
  /\ pc = "ready"
  /\ PageLoaded
  /\ call = [op |-> "selections"]
  /\ ret = <<>>

\* One more detectTimezone call, on text t.
DetectAgainOn(t, r) ==
  /\ ret' = Append(ret, [text |-> t, stale |-> lastIndex, zone |-> r.zone])
  /\ lastIndex' = r.lastIndex
DetectAgain ==
  /\ pc = "ready"
  /\ call.op = "selections"
  /\ \E t \in HistoryTexts : DetectAgainOn(t, detectTimezoneOn(t, lastIndex))
  /\ pc' = IF Len(ret) + 1 >= MaxHistory THEN "done" ELSE "ready"
  /\ UNCHANGED <<call, hostTZ, midnight24, page>>

\* The dialog on a page.  A selection arrives (the content script parses
\* it, looks for a zone and shows the dialog), the user changes a dropdown,
\* copies, clicks or presses a key.  call holds the last event handled.
\*
\* The hosts: one whose local zone is listed in ALL_TIMEZONES under the
\* name it reports, one that reports India's zone under its older name.
DialogHostZones == {"America/New_York", "Asia/Calcutta"}

\* A zone of ALL_TIMEZONES (added to the zone database in 2011) that the
\* modelled host's Intl does not know.
UnsupportedOption == "America/Metlakatla"

\* The options the user picks from.
OptionInputs == {"America/New_York", "Europe/Paris", UnsupportedOption}

\* The clock when the selection is parsed (2025-02-19T15:00Z).
DialogNow == DateUTC(2025, 1, 19, 15, 0, 0)

\* The selections: "", "9pm", "9 ET", "9 GMT".
DialogTexts ==
  { <<>>,
    <<"9", "p", "m">>,
    <<"9", " ", "E", "T">>,
    <<"9", " ", "G", "M", "T">> }

\* What the extractor answers: nothing, or a range from 6 PM to 8 PM on
\* February 19.
DialogStart ==
  [year |-> None, month |-> Some(2), day |-> Some(19), hour |-> Some(6),
   minute |-> Some(0), second |-> None, meridiem |-> Some(1)]
DialogEnd == [DialogStart EXCEPT !.hour = Some(8)]
DialogAnswers ==
  {None, Some(<<[start |-> DialogStart, end |-> Some(DialogEnd)]>>)}

InitDialog ==
  /\ hostTZ \in DialogHostZones
  /\ midnight24 = FALSE
  /\ lastIndex = 0
  /\ pc = "idle"
  /\ call = [op |-> "load"]
  /\ ret = Pending
  /\ PageLoaded

\* removeDialog().
RemoveDialog ==
  /\ dialogs' = HostsAfterRemove(dialogs)
  /\ keydown' = ListenersAfterRemove(keydown)

\* The content script's message listener, lines 806-813: an empty selection
\* is ignored; otherwise parseSelectedText, detectTimezone and showDialog.
TranslateWith(detected, parsed) ==
  /\ call' = [op |-> "translate"]
  /\ lastIndex' = detected.lastIndex
  /\ dialogs' = HostsAfterShow(dialogs, NewDialog(parsed, detected.zone))
  /\ keydown' = ListenersAfterShow(keydown)
  /\ UNCHANGED clipboard
TranslateText(detected) ==
  \E a \in DialogAnswers : TranslateWith(detected, parseCompletion(a, DialogNow).value)
Translate ==
  /\ pc = "idle"
  /\ \E t \in DialogTexts :
       IF t = <<>>
       THEN /\ call' = [op |-> "ignored"]
            /\ UNCHANGED <<lastIndex, page>>
       ELSE TranslateText(detectTimezoneOn(t, lastIndex))
  /\ UNCHANGED <<pc, ret, hostTZ, midnight24>>

\* A change event of the From dropdown: the user has picked tz.
ChangeFrom ==
  /\ pc = "idle"
  /\ \E i \in 1..Len(dialogs), tz \in OptionInputs :
       /\ dialogs[i].parsed # None
       /\ tz # dialogs[i].from
       /\ dialogs' = [dialogs EXCEPT ![i] = updateResult([@ EXCEPT !.from = tz])]
  /\ call' = [op |-> "change", select |-> "from"]
  /\ UNCHANGED <<pc, ret, lastIndex, hostTZ, midnight24, keydown, clipboard>>

\* A change event of the To dropdown.
ChangeTo ==
  /\ pc = "idle"
  /\ \E i \in 1..Len(dialogs), tz \in OptionInputs :
       /\ dialogs[i].parsed # None
       /\ tz # dialogs[i].to
       /\ dialogs' = [dialogs EXCEPT ![i] = updateResult([@ EXCEPT !.to = tz])]
  /\ call' = [op |-> "change", select |-> "to"]
  /\ UNCHANGED <<pc, ret, lastIndex, hostTZ, midnight24, keydown, clipboard>>

\* A click on the copy button: the text goes to the clipboard.
CopyClick ==
  /\ pc = "idle"
  /\ \E i \in 1..Len(dialogs) :
       /\ dialogs[i].parsed # None
       /\ clipboard' = Some(TextToCopy(dialogs[i]))
  /\ call' = [op |-> "copy"]
  /\ UNCHANGED <<pc, ret, lastIndex, hostTZ, midnight24, dialogs, keydown>>

\* A click on the close button.
CloseClick ==
  /\ pc = "idle"
  /\ dialogs # <<>>
  /\ RemoveDialog
  /\ call' = [op |-> "close"]
  /\ UNCHANGED <<pc, ret, lastIndex, hostTZ, midnight24, clipboard>>

\* A click that reaches the backdrop's listener: on the backdrop itself, or
\* inside the dialog box (the target is then not the backdrop).
BackdropClick ==
  /\ pc = "idle"
  /\ dialogs # <<>>
  /\ \E target \in {"backdrop", "dialog"} :
       /\ call' = [op |-> "click", target |-> target]
       /\ IF target = "backdrop" THEN RemoveDialog ELSE UNCHANGED <<dialogs, keydown>>
  /\ UNCHANGED <<pc, ret, lastIndex, hostTZ, midnight24, clipboard>>

\* A key goes down on the document: onKeyDown runs if it is registered.
KeyDown ==
  /\ pc = "idle"
  /\ \E key \in {"Escape", "Enter"} :
       /\ call' = [op |-> "keydown", key |-> key, open |-> dialogs # <<>>]
       /\ IF keydown > 0 /\ key = "Escape" THEN RemoveDialog
          ELSE UNCHANGED <<dialogs, keydown>>
  /\ UNCHANGED <<pc, ret, lastIndex, hostTZ, midnight24, clipboard>>

DialogNext ==
  Translate \/ ChangeFrom \/ ChangeTo \/ CopyClick \/ CloseClick \/ BackdropClick \/ KeyDown

\* The whole program: any one of the calls above.
Init ==
  \/ InitNormalize \/ InitParse \/ InitResolve \/ InitConvert \/ InitRange
  \/ InitSession \/ InitWall \/ InitAlias \/ InitScan \/ InitPipeline \/ InitHistory
  \/ InitDialog
Next ==
  \/ Normalize \/ Parse \/ Resolve \/ Convert \/ ConvertAgain \/ ToWallClock \/ Detect
  \/ ParseStart \/ ResolveStart \/ DetectAgain
  \/ Translate \/ ChangeFrom \/ ChangeTo \/ CopyClick \/ CloseClick \/ BackdropClick \/ KeyDown
Spec == Init /\ [][Next]_vars

\* The same, one entry point at a time.
SpecNormalize == InitNormalize /\ [][Normalize]_vars
SpecParse == InitParse /\ [][Parse]_vars
SpecResolve == InitResolve /\ [][Resolve]_vars
SpecAlias == InitAlias /\ [][Detect]_vars
SpecScan == InitScan /\ [][Detect]_vars
SpecHistory == InitHistory /\ [][DetectAgain]_vars
SpecConvert == InitConvert /\ [][Convert]_vars
SpecRange == InitRange /\ [][Convert]_vars
SpecSession == InitSession /\ [][ConvertAgain]_vars
SpecWall == InitWall /\ [][ToWallClock]_vars
SpecDialog == InitDialog /\ [][DialogNext]_vars
SpecPipeline == InitPipeline /\ [][ParseStart \/ ResolveStart]_vars

---------------------------------------------------------------------------
(* Properties of the wall-clock resolver.                                  *)

ResolveDone == pc = "done" /\ call.op = "wallClockToUTC" /\ KnownZone(call.fromTZ)

\* The wall-clock value wallClockToUTC reads off its argument, and that
\* value read as if it were UTC.
ResolveWall == LocalFields(call.parsedDate)
ResolveNaive == UTCOfFields(ResolveWall)

\* The resolved instant shows the input wall clock in the source zone.
RoundTrips == ZoneFields(ret, call.fromTZ) = ResolveWall

\* Some instant shows the wall-clock value f in zone tz (f is not skipped).
ExistsInZone(f, tz) ==
  \E o \in ZoneOffsets(tz) : OffsetAt(UTCOfFields(f) - o * 60, tz) = o

MaxAbsOffset(tz) ==
  LET abs == {IF o < 0 THEN 0 - o ELSE o : o \in ZoneOffsets(tz)}
  IN  CHOOSE m \in abs : \A a \in abs : a <= m

Distance(a, b) == IF a < b THEN b - a ELSE a - b

\* The readings of a transition edge of tz: its instant, and the wall-clock
\* readings (as time values) the zone shows just before and just after it.
EdgeReadings(tz) ==
  UNION {{t, t + OffsetAt(t - 1, tz) * 60, t + OffsetAt(t, tz) * 60} : t \in Transitions(tz)}

---------------------------------------------------------------------------
(* Properties of the timezone identifier.                                  *)

DetectDone == pc = "done" /\ call.op = "detectTimezone"
Found == DetectDone /\ ret.zone # NULL

\* The text of the accepted match, and the characters next to it ("" at
\* either end of the text).
Raw == SubSeq(call.text, ret.match.index + 1, ret.match.end)
CharAt(text, j) == IF j >= 1 /\ j <= Len(text) THEN text[j] ELSE ""
Before == CharAt(call.text, ret.match.index)
After == CharAt(call.text, ret.match.end + 1)

\* Letters (of any alphabet), digits and the underscore; the ASCII ones.
LowerLetters == DOMAIN UpperMap
UpperLetters == DOMAIN LowerMap
Digits == {"0", "1", "2", "3", "4", "5", "6", "7", "8", "9"}
LetterDigitUnderscore == LowerLetters \cup UpperLetters \cup Digits \cup {"_"}
IsAscii(text) == \A j \in 1..Len(text) : text[j] \notin {"é", "É"}

\* A token of five characters or fewer, without a space, not written
\* entirely in upper case.
ShortLowerToken(raw) ==
  /\ Len(raw) <= 5
  /\ \A j \in 1..Len(raw) : raw[j] # " "
  /\ \E j \in 1..Len(raw) : raw[j] \in LowerLetters

\* Entry k of the table is spelled at 0-based index p of text, in any
\* letter case.
SpelledAt(text, p, k) ==
  /\ p + Len(TIMEZONE_MAP[k].key) <= Len(text)
  /\ \A j \in 1..Len(TIMEZONE_MAP[k].key) :
       LowerChar(text[p + j]) = LowerChar(TIMEZONE_MAP[k].key[j])

\* That occurrence is a whole word: no letter, digit or underscore touches it.
WholeWordAt(text, p, k) ==
  /\ SpelledAt(text, p, k)
  /\ CharAt(text, p) \notin LetterDigitUnderscore
  /\ CharAt(text, p + Len(TIMEZONE_MAP[k].key) + 1) \notin LetterDigitUnderscore

\* A zone mention: a whole-word occurrence that passes the false-positive
\* filter.
MentionAt(text, p, k) ==
  /\ WholeWordAt(text, p, k)
  /\ ~ShortLowerToken(SubSeq(text, p + 1, p + Len(TIMEZONE_MAP[k].key)))
HasMention(text) ==
  \E p \in 0..(Len(text) - 1), k \in 1..NumKeys : MentionAt(text, p, k)

\* The entries the regex can match at index p, and the longest of them.
KeysAt(text, p) == {k \in 1..NumKeys : KeyMatchesAt(text, p, TIMEZONE_MAP[k].key)}
LongestOf(ks) ==
  CHOOSE k \in ks : \A j \in ks : Len(TIMEZONE_MAP[j].key) <= Len(TIMEZONE_MAP[k].key)

\* C3: for every alias k of TIMEZONE_MAP, a sentence that contains k, spelled
\* as in the table, as a whole word among unrelated words that are not
\* accepted aliases is identified as TIMEZONE_MAP.get(k).
C3_EveryAlias ==
  DetectDone => ret.zone = MapGet(call.key)

\* The aliases C3 fails for are exactly the short single words of the
\* table that are not all upper case ("India", "Japan", "Korea", "China"):
\* every other alias is identified, and these never are.
C3_AllButShortMixedCase ==
  DetectDone =>
    ret.zone = (IF ShortLowerToken(call.key) THEN NULL ELSE MapGet(call.key))

C3_Witness ==
  /\ DetectDone
  /\ call.key = <<"I", "n", "d", "i", "a">>
  /\ ret.zone = NULL

\* C4: when several aliases match at the position of the accepted match,
\* the match is the longest of them and the zone returned is that alias's,
\* also when a shorter one maps elsewhere ("Central European Time" is
\* Europe/Paris, "Eastern Standard Time" is matched as the whole phrase).
C4_LongestMatch ==
  /\ Found =>
       /\ KeysAt(call.text, ret.match.index) # {}
       /\ Len(Raw) = Len(TIMEZONE_MAP[LongestOf(KeysAt(call.text, ret.match.index))].key)
       /\ ret.zone = TIMEZONE_MAP[LongestOf(KeysAt(call.text, ret.match.index))].zone
  /\ DetectDone /\ call.text = <<"C", "e", "n", "t", "r", "a", "l", " ", "E", "u", "r", "o", "p", "e", "a", "n", " ", "T", "i", "m", "e">>
       => ret.zone = "Europe/Paris"
  /\ DetectDone /\ call.text = <<"E", "a", "s", "t", "e", "r", "n", " ", "S", "t", "a", "n", "d", "a", "r", "d", " ", "T", "i", "m", "e">>
       => ret.zone = "America/New_York" /\ ret.match = [index |-> 0, end |-> 21]

\* C4 witness: a phrase is accepted where a shorter alias of another zone
\* also matches.
C4_Witness ==
  /\ Found
  /\ IsAscii(call.text)
  /\ ret.zone = "Europe/Paris"
  /\ \E k \in KeysAt(call.text, ret.match.index) :
       TIMEZONE_MAP[k].zone = "America/Chicago"

\* C5: the accepted alias occurrence is never immediately preceded or
\* followed by a letter, digit or underscore; "meeting" yields no zone.
C5_WholeWord ==
  /\ Found =>
       Before \notin LetterDigitUnderscore /\ After \notin LetterDigitUnderscore
  /\ DetectDone /\ call.text = <<"m", "e", "e", "t", "i", "n", "g">>
       => ret.zone = NULL

\* C5 restricted to ASCII text.
C5_AsciiWholeWord ==
  /\ Found /\ IsAscii(call.text) =>
       Before \notin LetterDigitUnderscore /\ After \notin LetterDigitUnderscore
  /\ DetectDone /\ call.text = <<"m", "e", "e", "t", "i", "n", "g">>
       => ret.zone = NULL

C5_Witness ==
  /\ Found
  /\ Before = "É"

\* C6: a candidate of five characters or fewer, without a space, not all
\* upper case in the text is never the accepted match; "et" mid-sentence
\* yields no match, "ET" yields America/New_York.
C6_FalsePositive ==
  /\ Found => ~ShortLowerToken(Raw)
  /\ DetectDone /\ call.text = <<"l", "u", "n", "c", "h", " ", "e", "t", " ", "d", "i", "n", "n", "e", "r">>
       => ret.zone = NULL
  /\ DetectDone /\ call.text = <<"l", "u", "n", "c", "h", " ", "E", "T", " ", "d", "i", "n", "n", "e", "r">>
       => ret.zone = "America/New_York"

\* C6 witness: a lower-case "et" is passed over and an upper-case "ET"
\* after it is accepted.
C6_Witness ==
  /\ Found
  /\ IsAscii(call.text)
  /\ Raw = <<"E", "T">>
  /\ \E p \in 0..(ret.match.index - 1) :
       SubSeq(call.text, p + 1, p + 2) = <<"e", "t">> /\ KeysAt(call.text, p) # {}

\* The candidates: the indexes where the regex can match, each read as the
\* longest alias there; the ones the false-positive filter lets through.
AcceptedAt(text, p, ks) ==
  /\ ks # {}
  /\ ~isFalsePositive(SubSeq(text, p + 1, p + Len(TIMEZONE_MAP[LongestOf(ks)].key)))
AcceptedIndexes(text) ==
  {p \in 0..(Len(text) - 1) : AcceptedAt(text, p, KeysAt(text, p))}
LeftmostWins(text, p) ==
  /\ ret.match.index = p
  /\ ret.zone = TIMEZONE_MAP[LongestOf(KeysAt(text, p))].zone

\* C7: the zone returned is that of the leftmost candidate not rejected as a
\* false positive; rejected candidates are skipped and later mentions are
\* ignored ("Live at 9pm ET / 6pm PT" is America/New_York).
C7_FirstAccepted ==
  /\ DetectDone /\ AcceptedIndexes(call.text) # {}
       => LeftmostWins(call.text, Least(AcceptedIndexes(call.text)))
  /\ DetectDone /\ call.text = <<"L", "i", "v", "e", " ", "a", "t", " ", "9", "p", "m", " ", "E", "T", " ", "/", " ", "6", "p", "m", " ", "P", "T">>
       => ret.zone = "America/New_York"

\* C7 witness: a rejected candidate comes before the accepted match and a
\* mention of another zone after it.
C7_Witness ==
  /\ Found
  /\ IsAscii(call.text)
  /\ \E p \in 0..(ret.match.index - 1) : KeysAt(call.text, p) # {}
  /\ \E p \in AcceptedIndexes(call.text) :
       /\ p >= ret.match.end
       /\ TIMEZONE_MAP[LongestOf(KeysAt(call.text, p))].zone # ret.zone

\* C8: a text with no zone mention (no alias occurring as a whole word
\* that passes the false-positive filter) yields null.
C8_NullWithoutMention ==
  /\ DetectDone /\ ~HasMention(call.text) => ret.zone = NULL
  /\ DetectDone /\ call.text \in {<<"m", "e", "e", "t", "i", "n", "g", " ", "a", "t", " ", "3", "p", "m">>,
                                   <<"t", "o", "m", "o", "r", "r", "o", "w", " ", "a", "t", " ", "n", "o", "o", "n">>,
                                   <<"h", "e", "l", "l", "o", " ", "w", "o", "r", "l", "d">>}
       => ret.zone = NULL

\* C8 restricted to ASCII text.
C8_AsciiNull ==
  DetectDone /\ IsAscii(call.text) /\ ~HasMention(call.text) => ret.zone = NULL

C8_Witness ==
  /\ Found
  /\ ~HasMention(call.text)

ConvertDone ==
  pc = "done" /\ call.op = "convertParsed"
    /\ KnownZone(call.fromTZ) /\ KnownZone(call.toTZ)

\* The start wall clock convertParsed reads, and that value read as UTC.
ConvertWall == LocalFields(call.parsed.start)
ConvertNaive == UTCOfFields(ConvertWall)

\* No transition of tz within a day of t.
FarFromTransitions(t, tz) == \A x \in Transitions(tz) : Distance(t, x) > 86400

\* The en-US 12-hour label of a field record, and its date label.
ClockLabel(f) ==
  [hour |-> IF f.hour = 0 THEN 12 ELSE IF f.hour > 12 THEN f.hour - 12 ELSE f.hour,
   minute |-> f.minute,
   dayPeriod |-> IF f.hour >= 12 THEN "PM" ELSE "AM"]
DateLabel(f) == [month |-> MonthNames[f.month], day |-> f.day, year |-> f.year]

\* The call is the conversion of wall clock w from zone from to zone to.
IsConversion(w, from, to) ==
  ConvertDone /\ ConvertWall = w /\ call.fromTZ = from /\ call.toTZ = to

February(day, hour) ==
  [year |-> 2025, month |-> 2, day |-> day, hour |-> hour, minute |-> 0, second |-> 0]

\* C9: away from every transition of both zones, convertParsed displays the
\* source wall clock shifted by (target offset - source offset); the four
\* fixtures of the test suite come out as 6:00 AM, 3:00 PM, 7:00 AM, 5:00 PM.
C9_CrossZone ==
  /\ (ConvertDone /\ FarFromTransitions(ConvertNaive, call.fromTZ)
                  /\ FarFromTransitions(ConvertNaive, call.toTZ))
       => LET shift == OffsetAt(ConvertNaive, call.toTZ) - OffsetAt(ConvertNaive, call.fromTZ)
              f     == FieldsOf(ConvertNaive + shift * 60)
          IN  /\ ret.displayTime[1] = ClockLabel(f)
              /\ ret.displayDate = DateLabel(f)
  /\ IsConversion(February(18, 9), "America/New_York", "America/Los_Angeles")
       => ret.displayTime[1] = [hour |-> 6, minute |-> 0, dayPeriod |-> "AM"]
  /\ IsConversion(February(19, 18), "America/New_York", "America/Los_Angeles")
       => ret.displayTime[1] = [hour |-> 3, minute |-> 0, dayPeriod |-> "PM"]
  /\ IsConversion(February(19, 12), "UTC", "America/New_York")
       => ret.displayTime[1] = [hour |-> 7, minute |-> 0, dayPeriod |-> "AM"]
  /\ IsConversion(February(19, 9), "America/Los_Angeles", "GMT")
       => ret.displayTime[1] = [hour |-> 5, minute |-> 0, dayPeriod |-> "PM"]

\* C9 witness: the first fixture has run and shows 6:00 AM on February 18.
C9_Witness ==
  /\ IsConversion(February(18, 9), "America/New_York", "America/Los_Angeles")
  /\ FarFromTransitions(ConvertNaive, call.fromTZ)
  /\ FarFromTransitions(ConvertNaive, call.toTZ)
  /\ ret.displayTime[1] = [hour |-> 6, minute |-> 0, dayPeriod |-> "AM"]
  /\ ret.displayDate = [month |-> "February", day |-> 18, year |-> 2025]

\* The end wall clock convertParsed reads, that value read as UTC, and the
\* instant at which the source zone shows it when the zone's offset there
\* is the one in force at the naive reading.
ConvertEndWall == LocalFields(call.parsed.end[1])
ConvertEndNaive == UTCOfFields(ConvertEndWall)
ConvertEndInstant == ConvertEndNaive - OffsetAt(ConvertEndNaive, call.fromTZ) * 60

\* The label of the clock the target zone shows at instant t.
TargetClock(t) == ClockLabel(FieldsOf(t + OffsetAt(t, call.toTZ) * 60))

\* C17: the time label is "start - end" (two times, both as the target zone
\* shows them) exactly when parsed.hasRange, and the start time alone
\* otherwise; with a range endUTC is the end wall clock resolved in the
\* source zone, otherwise endUTC is null.
C17_RangeLabel ==
  ConvertDone =>
    /\ ret.displayTime[1] = TargetClock(ret.startUTC)
    /\ call.parsed.hasRange =>
         /\ Len(ret.displayTime) = 2
         /\ ret.endUTC = Some(ConvertEndInstant)
         /\ ret.displayTime[2] = TargetClock(ConvertEndInstant)
    /\ ~call.parsed.hasRange =>
         /\ Len(ret.displayTime) = 1
         /\ ret.endUTC = None

\* C17 witness: a range whose two ends show different times in a target
\* zone other than the source zone.
C17_Witness ==
  /\ ConvertDone
  /\ call.parsed.hasRange
  /\ call.fromTZ = "America/New_York" /\ call.toTZ = "Europe/Paris"
  /\ Len(ret.displayTime) = 2
  /\ ret.displayTime[1] # ret.displayTime[2]
  /\ ret.endUTC[1] = ret.startUTC + RangeMinutes * 60

\* The name the zone database gives tz at instant t: that of the last
\* transition not after t, the base name before the first.
NameInForce(t, tz) ==
  IF \A i \in 1..Len(ZoneRules[tz].trans) : ZoneRules[tz].trans[i].at > t
  THEN ZoneRules[tz].baseName
  ELSE ZoneRules[tz].trans[Greatest({i \in 1..Len(ZoneRules[tz].trans) :
                                       ZoneRules[tz].trans[i].at <= t})].name

DayOf(t) == t \div 86400

\* The minutes by which the target zone's clock is ahead of the source
\* zone's at the resolved start.
StartShift == OffsetAt(ret.startUTC, call.toTZ) - OffsetAt(ret.startUTC, call.fromTZ)

\* The start wall clock is farther from every transition of the source
\* zone than the zone's largest offset.
BeyondSourceOffset ==
  \A t \in Transitions(call.fromTZ) :
    Distance(ConvertNaive, t) > MaxAbsOffset(call.fromTZ) * 60

\* The date label differs from the source wall-clock date exactly when the
\* offset difference carries the start across midnight.
AcrossMidnight ==
  (ret.displayDate # DateLabel(ConvertWall))
    = (DayOf(ConvertNaive + StartShift * 60) # DayOf(ConvertNaive))

C14_UnknownZoneThrows ==
  (call.op = "convertParsed" /\ pc # "ready"
     /\ (~KnownZone(call.fromTZ) \/ ~KnownZone(call.toTZ)))
    => pc = "threw" /\ ret = RangeError

\* C14 witness: the source zone resolves and the target zone is unknown.
C14_Witness ==
  /\ call.op = "convertParsed"
  /\ pc = "threw"
  /\ KnownZone(call.fromTZ)
  /\ call.toTZ = UnknownZone

\* The calls of one caller on one ParsedMoment.
InSession == call.op = "updateResult"

---------------------------------------------------------------------------
(* Properties of componentsToWallClock.                                    *)

WallDone == pc = "done" /\ call.op = "componentsToWallClock"

\* The hour the extractor supplied (noon when it supplied none) and its
\* meridiem flag.
InputHour == Coalesce(call.components.hour, 12)
InputMeridiem == call.components.meridiem

\* C10: with meridiem AM (0) an hour of 12 becomes 0; with meridiem PM (1) an
\* hour below 12 becomes hour + 12; otherwise the hour is unchanged; so
\* (12, AM) gives 0, (6, PM) gives 18, and the hour handed to the Date
\* constructor stays within 0..23.
C10_Meridiem ==
  WallDone =>
    /\ (InputMeridiem = Some(0) /\ InputHour = 12) => ret.args.hour = 0
    /\ (InputMeridiem = Some(1) /\ InputHour < 12) => ret.args.hour = InputHour + 12
    /\ (~(InputMeridiem = Some(0) /\ InputHour = 12)
          /\ ~(InputMeridiem = Some(1) /\ InputHour < 12)) => ret.args.hour = InputHour
    /\ (InputMeridiem = Some(1) /\ InputHour = 6) => ret.args.hour = 18
    /\ ret.args.hour \in 0..23

\* C10 witness: 12 AM has been corrected to hour 0.
C10_Witness ==
  /\ WallDone
  /\ call.components.hour = Some(12)
  /\ InputMeridiem = Some(0)
  /\ ret.args.hour = 0
  /\ FieldsOf(ret.date + OffsetAt(ret.date, hostTZ) * 60).hour = 0

\* The local calendar date of the reference instant, and of the Date
\* returned.
RefDate == ZoneFields(call.ref, hostTZ)
RetDate == ZoneFields(ret.date, hostTZ)
TimeOnly ==
  call.components.year = None /\ call.components.month = None /\ call.components.day = None

\* C11: each of year, month and day that the extractor does not supply is
\* taken from the reference instant's local date, so a time-only expression
\* resolves to the reference's local year, month and day.
C11_DateDefaults ==
  WallDone =>
    /\ call.components.year = None => ret.args.year = RefDate.year
    /\ call.components.month = None => ret.args.month + 1 = RefDate.month
    /\ call.components.day = None => ret.args.day = RefDate.day
    /\ TimeOnly => /\ RetDate.year = RefDate.year
                   /\ RetDate.month = RefDate.month
                   /\ RetDate.day = RefDate.day

\* C11 witness: a time-only expression against a reference whose local date
\* (January 31) is not its UTC date (February 1).
C11_Witness ==
  /\ WallDone
  /\ TimeOnly
  /\ call.components.hour = Some(9)
  /\ FieldsOf(call.ref).day = 1
  /\ RetDate.month = 1 /\ RetDate.day = 31 /\ RetDate.hour = 9

\* C12: with no hour supplied the wall-clock hour is 12, with no minute or
\* second supplied that field is 0, whatever the other components are, a
\* meridiem flag without an hour included.
C12_TimeDefaults ==
  WallDone =>
    /\ call.components.hour = None => ret.args.hour = 12 /\ RetDate.hour = 12
    /\ call.components.minute = None => ret.args.minute = 0 /\ RetDate.minute = 0
    /\ call.components.second = None => ret.args.second = 0 /\ RetDate.second = 0

\* The same, but with no hour supplied the hour is 0 under an AM flag and
\* 12 otherwise.
C12_NoonUnlessAM ==
  WallDone =>
    /\ call.components.hour = None =>
         /\ ret.args.hour = (IF InputMeridiem = Some(0) THEN 0 ELSE 12)
         /\ RetDate.hour = ret.args.hour
    /\ call.components.minute = None => ret.args.minute = 0 /\ RetDate.minute = 0
    /\ call.components.second = None => ret.args.second = 0 /\ RetDate.second = 0

\* An AM flag without an hour gives midnight.
C12_Witness ==
  /\ WallDone
  /\ call.components.hour = None
  /\ InputMeridiem = Some(0)
  /\ ret.args.hour = 0
  /\ RetDate.hour = 0

---------------------------------------------------------------------------
(* Properties of normalizeForChrono.                                       *)

NormalizeDone == pc = "done" /\ call.op = "normalizeForChrono"

\* The characters of a text that are content: neither separator, comma nor
\* white space.
IsContent(c) == c \notin Separators \cup WhiteSpace \cup {","}
IsEnDash(c) == c = "EN DASH"
Has(text, chars) == \E j \in 1..Len(text) : text[j] \in chars

\* C19: the output holds no pipe, em-dash or bullet, a comma standing where
\* they were; every en-dash of the input is in the output, in the same
\* order among the other content.
C19_Separators ==
  NormalizeDone =>
    /\ ~Has(ret, Separators)
    /\ Has(call.text, Separators) => Has(ret, {","})
    /\ SelectSeq(ret, IsEnDash) = SelectSeq(call.text, IsEnDash)
    /\ SelectSeq(ret, IsContent) = SelectSeq(call.text, IsContent)

\* C19 witness: a text
\* with a separator and an en-dash has the separator rewritten only.
C19_Witness ==
  /\ NormalizeDone
  /\ Has(call.text, Separators) /\ Has(call.text, {"EN DASH"})
  /\ Has(ret, {"EN DASH"}) /\ Has(ret, {","})
  /\ ~Has(ret, Separators)

\* Two commas of text with nothing or only white space between them.
CommasTouch(text) ==
  \E i, j \in 1..Len(text) :
    /\ i < j /\ text[i] = "," /\ text[j] = ","
    /\ \A k \in (i + 1)..(j - 1) : text[k] \in WhiteSpace
SpaceRun(text) ==
  \E i \in 1..(Len(text) - 1) : text[i] \in WhiteSpace /\ text[i + 1] \in WhiteSpace
Untrimmed(text) ==
  text # <<>> /\ (text[1] \in WhiteSpace \/ text[Len(text)] \in WhiteSpace)

\* C20: for every input the output has no two commas adjacent or separated
\* only by white space, no run of two or more white-space characters, and
\* no leading or trailing white space.
C20_Collapsed ==
  NormalizeDone => ~CommasTouch(ret) /\ ~SpaceRun(ret) /\ ~Untrimmed(ret)

\* The white-space part of C20 alone.
C20_SpacesCollapsed ==
  NormalizeDone => ~SpaceRun(ret) /\ ~Untrimmed(ret)

\* Three commas in a row leave two.
C20_Witness ==
  /\ NormalizeDone
  /\ call.text = <<",", ",", ",">>
  /\ ret = <<",", ",">>

---------------------------------------------------------------------------
(* Properties of parseSelectedText.                                        *)

ParseEnded == call.op = "parseSelectedText" /\ pc # "ready"

\* C15: when the extractor finds no date or time in the text, the empty
\* text included, parseSelectedText returns null and does not throw.
C15_NoMatchIsNull ==
  (ParseEnded /\ NoResults(call.results)) => pc = "done" /\ ret = None

\* C15 witness: the empty text, nothing found, null returned.
C15_Witness ==
  /\ ParseEnded
  /\ call.text = <<>>
  /\ call.results = Some(<<>>)
  /\ pc = "done"
  /\ ret = None

\* C16: in every ParsedMoment returned, hasRange is true exactly when end is
\* non-null, and end is non-null exactly when the extractor's first match
\* has an end component.
C16_RangeIffEnd ==
  (ParseEnded /\ pc = "done" /\ ret # None) =>
    /\ ret[1].hasRange = (ret[1].end # None)
    /\ (ret[1].end # None) = (call.results[1][1].end # None)

\* C16 witness: a first match without an end followed by a match with one
\* gives no range; the start is the first match's.
C16_Witness ==
  /\ ParseEnded /\ pc = "done" /\ ret # None
  /\ Len(call.results[1]) = 2
  /\ call.results[1][1].end = None
  /\ call.results[1][2].end # None
  /\ ret[1].hasRange = FALSE
  /\ ret[1].end = None
  /\ ret[1].start = componentsToWallClock(call.results[1][1].start, call.ref)

\* A range has been returned.
C16_RangeReturned ==
  /\ ParseEnded /\ pc = "done" /\ ret # None
  /\ ret[1].hasRange
  /\ ret[1].end # None
  /\ ret[1].end[1] # ret[1].start

---------------------------------------------------------------------------
(* normalizeForChrono applied to its own output.                           *)

\* C30: normalizeForChrono is idempotent: applied to its own output it
\* returns that output unchanged.
C30_Idempotent ==
  NormalizeDone => normalizeForChrono(ret) = ret

\* C30 witness: three commas come out as two, and a second pass makes
\* them one.
C30_Witness ==
  /\ NormalizeDone
  /\ call.text = <<",", ",", ",">>
  /\ ret = <<",", ",">>
  /\ normalizeForChrono(ret) = <<",">>

\* A text without separators, commas or white-space runs is a fixed point.
C30_FixedPoint ==
  /\ NormalizeDone
  /\ Len(ret) = 4
  /\ ret = call.text
  /\ normalizeForChrono(ret) = ret

---------------------------------------------------------------------------
(* Order of the two instants of a converted range.                         *)

RangeDone == pc = "done" /\ call.op = "convertParsed" /\ call.parsed.end # None

\* C25: for every source zone and every two wall-clock values start <= end,
\* the instants wallClockToUTC resolves them to satisfy startUTC <= endUTC:
\* a converted range never ends before it starts.
C25_OrderPreserved ==
  (RangeDone /\ call.parsed.start <= call.parsed.end[1]) =>
    ret.startUTC <= ret.endUTC[1]

\* C25 witness: 06:30 to 07:00 on 2025-03-09 in New York, both after that
\* morning's spring-forward, resolve to 11:30Z and 11:00Z.
C25_Witness ==
  /\ RangeDone
  /\ hostTZ = "UTC"
  /\ call.fromTZ = "America/New_York"
  /\ call.parsed.start = DateUTC(2025, 2, 9, 6, 30, 0)
  /\ call.parsed.end = Some(DateUTC(2025, 2, 9, 7, 0, 0))
  /\ ret.startUTC = DateUTC(2025, 2, 9, 11, 30, 0)
  /\ ret.endUTC = Some(DateUTC(2025, 2, 9, 11, 0, 0))

\* In a zone without transitions the order is kept, strictly for a strict
\* range.
C25_FixedOffsetOrder ==
  (RangeDone /\ Transitions(call.fromTZ) = {}
     /\ call.parsed.start < call.parsed.end[1]) =>
    ret.startUTC < ret.endUTC[1]

---------------------------------------------------------------------------
(* Supplied fields of componentsToWallClock in the Date it returns.         *)

\* Field by field: what the extractor supplied is what the returned Date
\* shows on the host's clock (the hour after its meridiem correction).
SuppliedKept ==
  /\ call.components.year # None => RetDate.year = call.components.year[1]
  /\ call.components.month # None => RetDate.month = call.components.month[1]
  /\ call.components.day # None => RetDate.day = call.components.day[1]
  /\ call.components.hour # None => RetDate.hour = ret.args.hour
  /\ call.components.minute # None => RetDate.minute = call.components.minute[1]
  /\ call.components.second # None => RetDate.second = call.components.second[1]

\* C26: every calendar field the extractor supplies (year, month, day,
\* minute, second, and the hour after meridiem correction) appears unchanged
\* in the resulting wall clock; filling the missing fields from the
\* reference date never alters a supplied one.
C26_SuppliedKept == WallDone => SuppliedKept

\* C26 witness: February supplied, the day defaulted from a reference on
\* January 31: the Date returned is in March.
C26_Witness ==
  /\ WallDone
  /\ hostTZ = "UTC"
  /\ call.components.month = Some(2)
  /\ call.components.day = None
  /\ RefDate.month = 1 /\ RefDate.day = 31
  /\ ret.args.month = 1 /\ ret.args.day = 31
  /\ RetDate.month = 3 /\ RetDate.day = 3

\* The supplied fields reach the Date constructor unchanged, and the Date
\* shows them when the day is supplied too and the host has no transitions.
C26_KeptInArguments ==
  WallDone =>
    /\ call.components.year # None => ret.args.year = call.components.year[1]
    /\ call.components.month # None => ret.args.month + 1 = call.components.month[1]
    /\ call.components.day # None => ret.args.day = call.components.day[1]
    /\ call.components.minute # None => ret.args.minute = call.components.minute[1]
    /\ call.components.second # None => ret.args.second = call.components.second[1]
    /\ (hostTZ = "UTC" /\ call.components.day # None) => SuppliedKept

---------------------------------------------------------------------------
(* The host's zone on the path from components to instant.                 *)

PipelineDone == pc = "done" /\ call.op = "translate"

\* The wall clock componentsToWallClock computed: its constructor arguments
\* as calendar fields (any overflow of the day carried).
ComputedFields ==
  FieldsOf(DateUTC(ret.args.year, ret.args.month, ret.args.day,
                   ret.args.hour, ret.args.minute, ret.args.second))

FullyDated ==
  call.components.year # None /\ call.components.month # None /\ call.components.day # None

\* What a host in zone h resolves the same components to.
StartUTCOn(h) ==
  ShiftByOffset(UTCOfFields(ZoneFields(UTCOfLocal(UTCOfFields(ComputedFields), h), h)),
                call.fromTZ)

\* C27: the wall-clock fields wallClockToUTC reads back from the Date equal
\* the fields componentsToWallClock computed, whatever the host's zone, its
\* own skipped hour included; two runs that differ only in the host zone
\* resolve the same dated text and source zone to the same instant.
C27_HostIndependent ==
  PipelineDone =>
    /\ ret.read = ComputedFields
    /\ FullyDated => \A h \in HostZones : StartUTCOn(h) = ret.startUTC

\* C27 witness: 02:30 on 2025-03-09 on a host in New York is read back as
\* 03:30 and resolved in Paris to 02:30Z; a host in UTC gives 01:30Z.
C27_Witness ==
  /\ PipelineDone
  /\ hostTZ = "America/New_York"
  /\ call.fromTZ = "Europe/Paris"
  /\ FullyDated
  /\ ComputedFields = [year |-> 2025, month |-> 3, day |-> 9,
                       hour |-> 2, minute |-> 30, second |-> 0]
  /\ ret.read.hour = 3 /\ ret.read.minute = 30
  /\ ret.startUTC = DateUTC(2025, 2, 9, 2, 30, 0)
  /\ StartUTCOn("UTC") = DateUTC(2025, 2, 9, 1, 30, 0)

\* Outside the host's skipped hour the fields read back are the fields
\* computed, and dated components resolve alike on every host that has the
\* wall clock.
C27_OutsideHostGap ==
  (PipelineDone /\ ExistsInZone(ComputedFields, hostTZ)) =>
    /\ ret.read = ComputedFields
    /\ FullyDated =>
         \A h \in HostZones :
           ExistsInZone(ComputedFields, h) => StartUTCOn(h) = ret.startUTC

---------------------------------------------------------------------------
(* detectTimezone after earlier calls.                                     *)

InHistory == call.op = "selections"

\* C23: whatever calls came before, those that returned at an accepted
\* match and left the shared regex's lastIndex non-zero included,
\* detectTimezone(t) returns the value a first call would.  (No statement
\* of the code writes to TIMEZONE_MAP or SORTED_KEYS: the table is a
\* constant of the model.)
C23_HistoryIndependent ==
  InHistory =>
    \A j \in 1..Len(ret) : ret[j].zone = detectTimezone(ret[j].text).zone

\* C23 witness: "Live at 9pm ET / 6pm PT" returned at "ET" and left
\* lastIndex at 14; "lunch ET dinner", whose alias ends before index 14,
\* is still given New York by the next call.
C23_Witness ==
  /\ InHistory
  /\ Len(ret) >= 2
  /\ ret[1].zone = "America/New_York"
  /\ ret[2].stale = 14
  /\ Len(ret[2].text) = 15
  /\ ret[2].zone = "America/New_York"
  /\ DetectFrom(ret[2].text, ret[2].stale).zone = NULL

---------------------------------------------------------------------------
(* Properties of the dialog.                                               *)

\* showDialog has just run; the dialog on the page; it has dropdowns.
JustShown == call.op = "translate"
TheDialog == dialogs[1]
HasResult == dialogs # <<>> /\ TheDialog.parsed # None

Options == {ALL_TIMEZONES[i] : i \in 1..Len(ALL_TIMEZONES)}
MapZones == {TIMEZONE_MAP[k].zone : k \in 1..NumKeys}

\* The result box shows how convertParsed(parsed, from, to) completed: the
\* three labels of its result, or the error texts.
BoxShows(box, completion) ==
  IF completion.kind = "throw"
  THEN /\ box.kind = "error"
       /\ box.date = ""
       /\ box.time = "Conversion error"
       /\ box.tz = completion.value
  ELSE /\ box.kind = "result"
       /\ box.date = completion.value.displayDate
       /\ box.time = completion.value.displayTime
       /\ box.tz = completion.value.displayTZ

\* C21: whenever detectTimezone finds a zone in the selected text, the From
\* dropdown is pre-filled with exactly that zone and the first conversion
\* uses it as source; every zone TIMEZONE_MAP can yield is an option of
\* ALL_TIMEZONES.
C21_FromIsDetected ==
  (JustShown /\ HasResult /\ TheDialog.detectedTZ # NULL) =>
    /\ TheDialog.detectedTZ \in Options
    /\ TheDialog.from = TheDialog.detectedTZ
    /\ BoxShows(TheDialog.box,
                convertCompletion(TheDialog.parsed[1], TheDialog.detectedTZ, TheDialog.to))

\* C21 witness: "9 GMT" is selected; GMT is detected (the badge says so),
\* no option is GMT, and From shows UTC, the first option.
C21_Witness ==
  /\ JustShown /\ HasResult
  /\ TheDialog.detectedTZ = "GMT"
  /\ TheDialog.badge
  /\ "GMT" \notin Options
  /\ TheDialog.from = "UTC"

\* GMT is the only zone of TIMEZONE_MAP that is not an option, and every
\* other detected zone is what From shows and what the first conversion
\* starts from.
C21_ListedZonePrefilled ==
  /\ call.op = "load" =>
       /\ MapZones \ Options = {"GMT"}
       /\ \A z \in MapZones \cap Options : SelectValue(buildTimezoneOptions(z)) = z
       /\ SelectValue(buildTimezoneOptions("GMT")) = "UTC"
  /\ (JustShown /\ HasResult /\ TheDialog.detectedTZ \in Options) =>
       /\ TheDialog.from = TheDialog.detectedTZ
       /\ BoxShows(TheDialog.box,
                   convertCompletion(TheDialog.parsed[1], TheDialog.detectedTZ, TheDialog.to))

\* A detected New York has been pre-filled.
C21_NewYorkPrefilled ==
  /\ JustShown /\ HasResult
  /\ TheDialog.detectedTZ = "America/New_York"
  /\ TheDialog.from = "America/New_York"
  /\ TheDialog.box.kind = "result"

\* C22: the To dropdown initially selects the system's local zone, and so
\* does From when no zone was detected, whatever zone identifier the host
\* reports; the initial conversion is computed against the local zone.
C22_LocalZoneSelected ==
  (JustShown /\ HasResult) =>
    /\ TheDialog.to = hostTZ
    /\ TheDialog.detectedTZ = NULL => TheDialog.from = hostTZ
    /\ BoxShows(TheDialog.box,
                convertCompletion(TheDialog.parsed[1],
                                  DetectedOrLocal(TheDialog.detectedTZ, hostTZ), hostTZ))

\* C22 witness: on a host that reports Asia/Calcutta, with no zone in the
\* text, both dropdowns show UTC and 6 PM to 8 PM is "converted" from UTC
\* to UTC.
C22_Witness ==
  /\ JustShown /\ HasResult
  /\ hostTZ = "Asia/Calcutta"
  /\ hostTZ \notin Options
  /\ TheDialog.detectedTZ = NULL
  /\ TheDialog.from = "UTC" /\ TheDialog.to = "UTC"
  /\ TheDialog.box.kind = "result"
  /\ TheDialog.box.tz = "Coordinated Universal Time"
  /\ TheDialog.box.time[1].hour = 6 /\ TheDialog.box.time[1].dayPeriod = "PM"

\* On a host whose zone is an option, the claim's three parts hold.
C22_ListedLocalZone ==
  (JustShown /\ HasResult /\ hostTZ \in Options) =>
    /\ TheDialog.to = hostTZ
    /\ TheDialog.detectedTZ = NULL => TheDialog.from = hostTZ
    /\ TheDialog.detectedTZ \in Options =>
         BoxShows(TheDialog.box,
                  convertCompletion(TheDialog.parsed[1],
                                    DetectedOrLocal(TheDialog.detectedTZ, hostTZ), hostTZ))

\* New York has been selected twice on a host in New York.
C22_NewYorkSelected ==
  /\ JustShown /\ HasResult
  /\ hostTZ = "America/New_York"
  /\ TheDialog.detectedTZ = NULL
  /\ TheDialog.from = hostTZ /\ TheDialog.to = hostTZ

\* C24: when the dialog opens with a parsed moment and after every change
\* event of either dropdown, the result box shows the date, time and zone
\* name of convertParsed(parsed, current From, current To); if that call
\* throws, it shows an empty date, "Conversion error" and the error's
\* message, and no result.
C24_LiveUpdate ==
  \A i \in 1..Len(dialogs) :
    dialogs[i].parsed # None =>
      BoxShows(dialogs[i].box,
               convertCompletion(dialogs[i].parsed[1], dialogs[i].from, dialogs[i].to))

\* C24 witness: after a change of To to Paris the box shows the range in
\* Central European Standard Time.
C24_Witness ==
  /\ HasResult
  /\ call.op = "change" /\ call.select = "to"
  /\ TheDialog.from = "America/New_York"
  /\ TheDialog.to = "Europe/Paris"
  /\ TheDialog.box.kind = "result"
  /\ TheDialog.box.tz = "Central European Standard Time"
  /\ TheDialog.box.date = [year |-> 2025, month |-> "February", day |-> 20]
  /\ TheDialog.box.time[1].hour = 12 /\ TheDialog.box.time[1].dayPeriod = "AM"

\* After a change of From to a zone the host does not know, the box shows
\* the error.
C24_ErrorShown ==
  /\ HasResult
  /\ call.op = "change" /\ call.select = "from"
  /\ TheDialog.from = UnsupportedOption
  /\ TheDialog.box.kind = "error"
  /\ TheDialog.box.date = ""
  /\ TheDialog.box.time = "Conversion error"
  /\ TheDialog.box.tz = RangeError

\* A click on Copy has just been handled.
JustCopied == call.op = "copy" /\ HasResult /\ clipboard # None
BoxLabels(box) == [date |-> box.date, time |-> box.time, tz |-> box.tz]

\* C28: the text the Copy button puts on the clipboard corresponds to what
\* the result box displays: displayDate, newline, displayTime and displayTZ
\* of the latest conversion; while the box shows "Conversion error" a click
\* never copies the text of an earlier successful conversion.
C28_CopyMatchesBox ==
  JustCopied =>
    /\ TheDialog.box.kind = "result" => clipboard[1] = Some(BoxLabels(TheDialog.box))
    /\ TheDialog.box.kind = "error" => clipboard[1] = None

\* C28 witness: the box shows the error and the click has copied the
\* result that was shown before.
C28_Witness ==
  /\ JustCopied
  /\ TheDialog.box.kind = "error"
  /\ TheDialog.box.time = "Conversion error"
  /\ clipboard[1] # None
  /\ clipboard[1][1].tz = "Eastern Standard Time"

\* While the box shows a result, a click copies the labels of that result.
C28_ResultCopied ==
  (JustCopied /\ TheDialog.box.kind = "result") =>
    clipboard[1] = Some(BoxLabels(TheDialog.box))

\* A result has been copied after a change.
C28_ChangedResultCopied ==
  /\ JustCopied
  /\ TheDialog.box.kind = "result"
  /\ TheDialog.to = "Europe/Paris"
  /\ clipboard[1] = Some(BoxLabels(TheDialog.box))

\* The last event closes the dialog: a click on the close button or on the
\* backdrop itself, or an Escape press.
Closing ==
  \/ call.op = "close"
  \/ call.op = "click" /\ call.target = "backdrop"
  \/ call.op = "keydown" /\ call.key = "Escape"

\* C29: after any sequence of showDialog calls (with or without a parsed
\* moment), close clicks, backdrop clicks and Escape presses, at most one
\* dialog host is in the document and at most one keydown handler is
\* registered; each of the three closing events removes the dialog, and
\* once it is removed no keydown handler remains.
C29_OneDialogOneHandler ==
  /\ Len(dialogs) <= 1
  /\ keydown <= 1
  /\ Closing => dialogs = <<>>
  /\ dialogs = <<>> => keydown = 0

\* C29 witness: Escape was pressed while a dialog was open; nothing is
\* left of it.
C29_Witness ==
  /\ call.op = "keydown" /\ call.key = "Escape" /\ call.open
  /\ dialogs = <<>>
  /\ keydown = 0

\* A dialog without a parsed moment is on the page, with its key handler.
C29_ErrorDialogOpen ==
  /\ Len(dialogs) = 1
  /\ TheDialog.parsed = None
  /\ keydown = 1
  /\ clipboard # None

============================================================================
